---- MODULE Spec2Model ----
(***************************************************************************)
(* chain-rpc: the concurrent endpoint prober (pkg/rpc), the per-endpoint    *)
(* eth_chainId validation over HTTP and WebSocket, and the chain directory  *)
(* cache (pkg/chain): the artifact on disk, its rebuild and its lookups.    *)
(*                                                                          *)
(* Strings the code inspects character by character (URLs, the result      *)
(* string of a response) are sequences of one-character strings.            *)
(***************************************************************************)
EXTENDS Integers, Sequences, FiniteSets, TLC

VARIABLES
    \* ---- one call of findWorkingRPCsConcurrently and of its caller ----
    rpcURLs,        \* the candidate list (parameter rpcURLs)
    expectedChainID,\* parameter expectedChainID
    behaviours,     \* how the endpoints of this batch may answer (the environment)
    pcMain,         \* position of the calling goroutine (launch loop, collector loop)
    launched,       \* number of iterations of the launch loop done so far
    wpc,            \* position of each worker goroutine
    verdict,        \* what isRPCWorkingWithTimeout returned in each worker (FALSE before)
    wg,             \* sync.WaitGroup counter
    dpc,            \* position of the goroutine that waits on wg and closes done
    doneClosed,     \* the done channel has been closed
    resultCh,       \* buffered channel of URLs, capacity len(rpcURLs)
    timeoutCh,      \* channel of time.After: holds the single tick once fired
    timerFired,     \* the runtime timer of time.After has fired
    fireSnap,       \* what had been validated and accepted when the timer fired
    workingRPCs,    \* the slice the collector accumulates and returns
    returnedVia,    \* which branch of the collector returned
    api,            \* the exported call layered on the collection and its outcome
    output,         \* what the `all` command prints after shuffling
    \* ---- one validation of one endpoint (pure functions) ----
    vUrl,           \* the URL handed to isRPCWorkingWithTimeout
    vResp,          \* how the endpoint behaves on the eth_chainId request
    vExpected,      \* expectedChainID of that call
    vOut,           \* verdict and transport of that call, once made
    \* ---- the cache artifact and the calls of one process, one after another ----
    cacheFile,      \* the artifact at path cacheFile: existence, age, content
    forceRebuild,   \* package variable forceRebuild
    lastCall,       \* the last exported call of pkg/chain and what it did
    \* ---- one run of buildCache, insert goroutine by insert goroutine ----
    chains,         \* the decoded feed (local chains)
    bpc,            \* position of the goroutine running buildCache
    spawned,        \* number of iterations of the spawn loop done so far
    ipc,            \* position of each insert goroutine
    mu,             \* the insertion mutex: its holder, 0 when free
    cacheData,      \* the two maps being filled (local cacheData)
    lookup,         \* the last lookup made on the artifact and its result
    \* ---- callers of several processes sharing the artifact ----
    cop,            \* the operation each caller runs
    cpc,            \* position of each caller in its operation
    cacheMux,       \* per process: the holder of cacheMux, 0 when free
    disk,           \* the artifact, chunk by chunk
    wofs,           \* per caller: offset of its open file descriptor
    seen,           \* per caller: what its lookup read from the artifact
    \* ---- one alias, indexed and asked for (pure functions) ----
    nAlias,         \* the name of the one record of the feed
    nOut            \* the normal forms computed and the lookup made

vars == << rpcURLs, expectedChainID, behaviours, pcMain, launched, wpc, verdict, wg, dpc,
           doneClosed, resultCh, timeoutCh, timerFired, fireSnap, workingRPCs,
           returnedVia, api, output, vUrl, vResp, vExpected, vOut,
           cacheFile, forceRebuild, lastCall,
           chains, bpc, spawned, ipc, mu, cacheData, lookup,
           cop, cpc, cacheMux, disk, wofs, seen, nAlias, nOut >>

proberVars == << rpcURLs, expectedChainID, behaviours, pcMain, launched, wpc, verdict,
                 wg, dpc, doneClosed, resultCh, timeoutCh, timerFired, fireSnap, workingRPCs,
                 returnedVia, api, output >>

validateVars == << vUrl, vResp, vExpected, vOut >>

storeVars == << cacheFile, forceRebuild, lastCall >>

buildVars == << chains, bpc, spawned, ipc, mu, cacheData, lookup >>

concVars == << cop, cpc, cacheMux, disk, wofs, seen >>

normVars == << nAlias, nOut >>

chainVars == << cacheFile, forceRebuild, lastCall,
                chains, bpc, spawned, ipc, mu, cacheData, lookup,
                cop, cpc, cacheMux, disk, wofs, seen, nAlias, nOut >>

(***************************************************************************)
(* Bounds                                                                   *)
(***************************************************************************)
MaxURLs == 2        \* longest candidate list
MaxStrLen == 3      \* longest result string of a response

(***************************************************************************)
(* Strings                                                                  *)
(***************************************************************************)
HasPrefix(s, p) == Len(s) >= Len(p) /\ SubSeq(s, 1, Len(p)) = p

URL_https == << "h", "t", "t", "p", "s", ":", "/", "/", "a" >>
URL_http  == << "h", "t", "t", "p", ":", "/", "/", "a" >>
URL_wss   == << "w", "s", "s", ":", "/", "/", "b" >>
URL_ws    == << "w", "s", ":", "/", "/", "b" >>

URLs == { URL_https, URL_http, URL_wss, URL_ws }

\* The candidate lists of the batch model: one HTTP and one WebSocket endpoint,
\* repeated or not.
BatchURLs == { URL_https, URL_wss }

Prefix_wss   == << "w", "s", "s", ":", "/", "/" >>
Prefix_ws    == << "w", "s", ":", "/", "/" >>
Prefix_http  == << "h", "t", "t", "p", ":", "/", "/" >>
Prefix_https == << "h", "t", "t", "p", "s", ":", "/", "/" >>

(***************************************************************************)
(* strconv.ParseUint(s, 0, 64), base taken from the prefix.  -1 stands for  *)
(* the error return.  Strings of at most MaxStrLen+1 characters cannot      *)
(* overflow 64 bits, so the range error never arises here.                  *)
(***************************************************************************)
Alphabet == { "0", "1", "8", "x", "b", "o", "_" }

ParseErr == -1

SeqsUpTo(S, n) == UNION { [1..k -> S] : k \in 0..n }

ResultStrings == SeqsUpTo(Alphabet, MaxStrLen)

digitVal(c) ==
    CASE c = "0" -> 0
      [] c = "1" -> 1
      [] c = "8" -> 8
      [] c = "b" -> 11
      [] c = "o" -> 24
      [] c = "x" -> 33
      [] OTHER   -> 99

Tail2(s) == SubSeq(s, 3, Len(s))

\* The base ParseUint infers when called with base 0.
baseOf(s) ==
    IF s[1] = "0"
    THEN IF Len(s) >= 3 /\ s[2] = "b" THEN 2
         ELSE IF Len(s) >= 3 /\ s[2] = "o" THEN 8
         ELSE IF Len(s) >= 3 /\ s[2] = "x" THEN 16
         ELSE 8
    ELSE 10

\* The digits left once the prefix is cut off.
stripPrefix(s) ==
    IF s[1] = "0"
    THEN IF Len(s) >= 3 /\ s[2] \in { "b", "o", "x" } THEN Tail2(s) ELSE Tail(s)
    ELSE s

RECURSIVE accumulate(_, _, _)
accumulate(s, base, n) ==
    IF s = << >> THEN n
    ELSE IF s[1] = "_" THEN accumulate(Tail(s), base, n)
    ELSE IF digitVal(s[1]) >= base THEN ParseErr
    ELSE accumulate(Tail(s), base, n * base + digitVal(s[1]))

\* underscoreOK: last is "^" at the start, "0" after a digit, "_" after an
\* underscore, "!" after anything else.
RECURSIVE underscoreScan(_, _, _)
underscoreScan(s, hex, last) ==
    IF s = << >> THEN last # "_"
    ELSE IF s[1] \in { "0", "1", "8" } \/ (hex /\ s[1] = "b")
         THEN underscoreScan(Tail(s), hex, "0")
    ELSE IF s[1] = "_"
         THEN IF last # "0" THEN FALSE ELSE underscoreScan(Tail(s), hex, "_")
    ELSE IF last = "_" THEN FALSE
    ELSE underscoreScan(Tail(s), hex, "!")

underscoreOK(s) ==
    IF Len(s) >= 2 /\ s[1] = "0" /\ s[2] \in { "b", "o", "x" }
    THEN underscoreScan(Tail2(s), s[2] = "x", "0")
    ELSE underscoreScan(s, FALSE, "^")

hasUnderscore(s) == \E i \in 1..Len(s) : s[i] = "_"

ParseUint(s) ==
    IF s = << >> THEN ParseErr
    ELSE LET n == accumulate(stripPrefix(s), baseOf(s), 0)
         IN  IF n = ParseErr THEN ParseErr
             ELSE IF hasUnderscore(stripPrefix(s)) /\ ~underscoreOK(s) THEN ParseErr
             ELSE n

(***************************************************************************)
(* One endpoint's behaviour on the eth_chainId request.                     *)
(*   connects  the transport connects and answers within the timeout        *)
(*   status    HTTP status of the answer (read by the HTTP transport only)  *)
(*   decodes   the body decodes into RPCResponse                            *)
(*   hasError  the error field is present and not null                      *)
(*   result    the result field: a string (with its characters), a number   *)
(*             or null/absent                                               *)
(***************************************************************************)
StatusOK == 200

\* The statuses an endpoint answers with: 200 and one other.
HTTPStatuses == { StatusOK, 500 }

ResultValues ==
    { [kind |-> "string", str |-> s] : s \in ResultStrings }
    \cup { [kind |-> "number", str |-> << >>], [kind |-> "null", str |-> << >>] }

Responses ==
    [ connects : BOOLEAN, status : HTTPStatuses,
      decodes : BOOLEAN, hasError : BOOLEAN, result : ResultValues ]

ExpectedIDs == { 1, 8 }

\* client.Do: net/http speaks http and https only.
clientDo(rpcURL, resp) ==
    resp.connects /\ (HasPrefix(rpcURL, Prefix_http) \/ HasPrefix(rpcURL, Prefix_https))

\* dialer.DialContext: the WebSocket dialer speaks ws and wss only.
dialContext(rpcURL, resp) ==
    resp.connects /\ (HasPrefix(rpcURL, Prefix_ws) \/ HasPrefix(rpcURL, Prefix_wss))

\* Faulty variant: the error field of the response is not looked at.
checkRPCResponse_NoErrorCheck(resp, expected) ==
    IF resp.result.kind # "string" THEN FALSE
    ELSE IF ParseUint(resp.result.str) = ParseErr THEN FALSE
    ELSE ParseUint(resp.result.str) = expected

\* The tail both transports share: error field, type of result, ParseUint,
\* comparison with expectedChainID.
checkRPCResponse(resp, expected) ==
    IF resp.hasError THEN FALSE
    ELSE IF resp.result.kind # "string" THEN FALSE
    ELSE IF ParseUint(resp.result.str) = ParseErr THEN FALSE
    ELSE ParseUint(resp.result.str) = expected

isHTTPRPCWorking(rpcURL, resp, expected) ==
    IF ~clientDo(rpcURL, resp) THEN FALSE
    ELSE IF resp.status # StatusOK THEN FALSE
    ELSE IF ~resp.decodes THEN FALSE
    ELSE checkRPCResponse(resp, expected)

\* Faulty variant: the error of conn.ReadJSON is dropped.
isWebSocketRPCWorking_NoDecodeCheck(rpcURL, resp, expected) ==
    IF ~dialContext(rpcURL, resp) THEN FALSE
    ELSE IF resp.hasError THEN FALSE
    ELSE IF resp.result.kind # "string" THEN FALSE
    ELSE IF ParseUint(resp.result.str) = ParseErr THEN FALSE
    ELSE ParseUint(resp.result.str) = expected

isWebSocketRPCWorking(rpcURL, resp, expected) ==
    IF ~dialContext(rpcURL, resp) THEN FALSE
    ELSE IF ~resp.decodes THEN FALSE
    ELSE checkRPCResponse(resp, expected)

\* pkg/rpc's scheme test.
isWebSocketURL(rpcURL) == HasPrefix(rpcURL, Prefix_wss)

\* The CLI's scheme test (the --wss filter).
mainIsWebSocketURL(url) == HasPrefix(url, Prefix_ws) \/ HasPrefix(url, Prefix_wss)

transportOf(rpcURL) == IF isWebSocketURL(rpcURL) THEN "websocket" ELSE "http"

isRPCWorkingWithTimeout(rpcURL, resp, expected) ==
    IF isWebSocketURL(rpcURL)
    THEN isWebSocketRPCWorking(rpcURL, resp, expected)
    ELSE isHTTPRPCWorking(rpcURL, resp, expected)

(***************************************************************************)
(* findWorkingRPCsConcurrently                                              *)
(***************************************************************************)
Workers == 1..Len(rpcURLs)

\* The endpoint behaviours a worker of the batch may meet: one per way of
\* failing, and two notations of a matching chain ID.
Str_0x1 == << "0", "x", "1" >>
Str_1   == << "1" >>
Str_x   == << "x" >>
Str_0   == << "0" >>

goodResponse(s) ==
    [ connects |-> TRUE, status |-> StatusOK, decodes |-> TRUE, hasError |-> FALSE,
      result |-> [kind |-> "string", str |-> s] ]

BatchResponses ==
    { goodResponse(Str_0x1), goodResponse(Str_1),
      [goodResponse(Str_0x1) EXCEPT !.connects = FALSE],
      [goodResponse(Str_0x1) EXCEPT !.status = 500],
      [goodResponse(Str_0x1) EXCEPT !.decodes = FALSE],
      [goodResponse(Str_0x1) EXCEPT !.hasError = TRUE],
      [goodResponse(Str_0x1) EXCEPT !.result = [kind |-> "number", str |-> << >>]],
      goodResponse(Str_x), goodResponse(Str_0) }

\* The ways of failing an endpoint validation knows: transport failure, malformed
\* body, error field, non-string result, unparseable integer, other chain ID.
FailsValidation(r, expected) ==
    \/ ~r.connects
    \/ ~r.decodes
    \/ r.hasError
    \/ r.result.kind # "string"
    \/ ParseUint(r.result.str) = ParseErr
    \/ ParseUint(r.result.str) # expected

FailingBatchResponses == { r \in BatchResponses : FailsValidation(r, 1) }

NoSnap == [ validated |-> {}, accepted |-> 0 ]

NotPrinted == [ printed |-> FALSE, lines |-> << >> ]

NoCall == [ fn |-> "none", err |-> "nil", result |-> << >> ]

ProberInit ==
    /\ rpcURLs \in SeqsUpTo(BatchURLs, MaxURLs)
    /\ expectedChainID = 1
    /\ behaviours \in { BatchResponses, FailingBatchResponses }
    /\ pcMain = "launch"
    /\ launched = 0
    /\ wpc = [i \in Workers |-> "idle"]
    /\ verdict = [i \in Workers |-> FALSE]
    /\ wg = 0
    /\ dpc = "idle"
    /\ doneClosed = FALSE
    /\ resultCh = << >>
    /\ timeoutCh = << >>
    /\ timerFired = FALSE
    /\ fireSnap = NoSnap
    /\ workingRPCs = << >>
    /\ returnedVia = "none"
    /\ api = NoCall
    /\ output = NotPrinted

\* The runtime timer of time.After(timeout) fires: one tick is put into
\* timeoutCh, once.
TimerFire ==
    /\ ~timerFired
    /\ timerFired' = TRUE
    /\ timeoutCh' = << "tick" >>
    /\ fireSnap' = [ validated |-> { i \in Workers : verdict[i] },
                     accepted |-> Len(workingRPCs) ]
    /\ UNCHANGED << rpcURLs, expectedChainID, behaviours, pcMain, launched, wpc, verdict,
                    wg, dpc, doneClosed, resultCh, workingRPCs, returnedVia, api, output,
                    validateVars, chainVars >>

\* One iteration of the launch loop: wg.Add(1); go func(url) {...}(rpcURL).
Launch ==
    /\ pcMain = "launch"
    /\ launched < Len(rpcURLs)
    /\ wg' = wg + 1
    /\ launched' = launched + 1
    /\ wpc' = [wpc EXCEPT ![launched + 1] = "validate"]
    /\ UNCHANGED << rpcURLs, expectedChainID, behaviours, pcMain, verdict, dpc,
                    doneClosed, resultCh, timeoutCh, timerFired, fireSnap, workingRPCs,
                    returnedVia, api, output, validateVars, chainVars >>

\* After the loop: done := make(chan struct{}); go func() { wg.Wait(); close(done) }().
SpawnDone ==
    /\ pcMain = "launch"
    /\ launched = Len(rpcURLs)
    /\ dpc' = "wait"
    /\ pcMain' = "collect"
    /\ UNCHANGED << rpcURLs, expectedChainID, behaviours, launched, wpc, verdict, wg,
                    doneClosed, resultCh, timeoutCh, timerFired, fireSnap, workingRPCs,
                    returnedVia, api, output, validateVars, chainVars >>

\* Faulty variant: the worker goes on to push its URL whatever the verdict.
WorkerValidate_PushAlways(i) ==
    /\ wpc[i] = "validate"
    /\ \E r \in behaviours :
         /\ verdict' = [verdict EXCEPT
                           ![i] = isRPCWorkingWithTimeout(rpcURLs[i], r, expectedChainID)]
         /\ wpc' = [wpc EXCEPT ![i] = "select"]
    /\ UNCHANGED << rpcURLs, expectedChainID, behaviours, pcMain, launched, wg, dpc,
                    doneClosed, resultCh, timeoutCh, timerFired, fireSnap, workingRPCs,
                    returnedVia, api, output, validateVars, chainVars >>

\* A worker's call of isRPCWorkingWithTimeout returns.
WorkerValidate(i) ==
    /\ wpc[i] = "validate"
    /\ \E r \in behaviours :
         LET v == isRPCWorkingWithTimeout(rpcURLs[i], r, expectedChainID)
         IN  /\ verdict' = [verdict EXCEPT ![i] = v]
             /\ wpc' = [wpc EXCEPT ![i] = IF v THEN "select" ELSE "exit"]
    /\ UNCHANGED << rpcURLs, expectedChainID, behaviours, pcMain, launched, wg, dpc,
                    doneClosed, resultCh, timeoutCh, timerFired, fireSnap, workingRPCs,
                    returnedVia, api, output, validateVars, chainVars >>

\* Faulty variant: the result channel has room for one value only.
WorkerSend_CapacityOne(i) ==
    /\ wpc[i] = "select"
    /\ Len(resultCh) < 1
    /\ resultCh' = Append(resultCh, rpcURLs[i])
    /\ wpc' = [wpc EXCEPT ![i] = "exit"]
    /\ UNCHANGED << rpcURLs, expectedChainID, behaviours, pcMain, launched, verdict, wg,
                    dpc, doneClosed, timeoutCh, timerFired, fireSnap, workingRPCs,
                    returnedVia, api, output, validateVars, chainVars >>

\* select case resultCh <- url (ready while the buffer has room).
WorkerSend(i) ==
    /\ wpc[i] = "select"
    /\ Len(resultCh) < Len(rpcURLs)
    /\ resultCh' = Append(resultCh, rpcURLs[i])
    /\ wpc' = [wpc EXCEPT ![i] = "exit"]
    /\ UNCHANGED << rpcURLs, expectedChainID, behaviours, pcMain, launched, verdict, wg,
                    dpc, doneClosed, timeoutCh, timerFired, fireSnap, workingRPCs,
                    returnedVia, api, output, validateVars, chainVars >>

\* select case <-timeoutCh in the worker: it receives the tick.
WorkerTimeout(i) ==
    /\ wpc[i] = "select"
    /\ timeoutCh # << >>
    /\ timeoutCh' = Tail(timeoutCh)
    /\ wpc' = [wpc EXCEPT ![i] = "exit"]
    /\ UNCHANGED << rpcURLs, expectedChainID, behaviours, pcMain, launched, verdict, wg,
                    dpc, doneClosed, resultCh, timerFired, fireSnap, workingRPCs,
                    returnedVia, api, output, validateVars, chainVars >>

\* defer wg.Done()
WorkerDone(i) ==
    /\ wpc[i] = "exit"
    /\ wg' = wg - 1
    /\ wpc' = [wpc EXCEPT ![i] = "finished"]
    /\ UNCHANGED << rpcURLs, expectedChainID, behaviours, pcMain, launched, verdict, dpc,
                    doneClosed, resultCh, timeoutCh, timerFired, fireSnap, workingRPCs,
                    returnedVia, api, output, validateVars, chainVars >>

\* wg.Wait() returns once the counter is zero.
DoneWait ==
    /\ dpc = "wait"
    /\ wg = 0
    /\ dpc' = "close"
    /\ UNCHANGED << rpcURLs, expectedChainID, behaviours, pcMain, launched, wpc, verdict,
                    wg, doneClosed, resultCh, timeoutCh, timerFired, fireSnap,
                    workingRPCs, returnedVia, api, output, validateVars, chainVars >>

\* close(done)
DoneClose ==
    /\ dpc = "close"
    /\ dpc' = "closed"
    /\ doneClosed' = TRUE
    /\ UNCHANGED << rpcURLs, expectedChainID, behaviours, pcMain, launched, wpc, verdict,
                    wg, resultCh, timeoutCh, timerFired, fireSnap, workingRPCs,
                    returnedVia, api, output, validateVars, chainVars >>

\* Faulty variant: the collector returns as soon as it has one result.
CollectResult_EarlyExit ==
    /\ pcMain = "collect"
    /\ resultCh # << >>
    /\ workingRPCs' = Append(workingRPCs, Head(resultCh))
    /\ resultCh' = Tail(resultCh)
    /\ pcMain' = "returned"
    /\ returnedVia' = "first"
    /\ UNCHANGED << rpcURLs, expectedChainID, behaviours, launched, wpc, verdict, wg,
                    dpc, doneClosed, timeoutCh, timerFired, fireSnap, api, output,
                    validateVars, chainVars >>

\* Collector, case url := <-resultCh: append.
CollectResult ==
    /\ pcMain = "collect"
    /\ resultCh # << >>
    /\ workingRPCs' = Append(workingRPCs, Head(resultCh))
    /\ resultCh' = Tail(resultCh)
    /\ UNCHANGED << rpcURLs, expectedChainID, behaviours, pcMain, launched, wpc, verdict,
                    wg, dpc, doneClosed, timeoutCh, timerFired, fireSnap, returnedVia,
                    api, output, validateVars, chainVars >>

\* Collector, case <-timeoutCh: return workingRPCs.
CollectTimeout ==
    /\ pcMain = "collect"
    /\ timeoutCh # << >>
    /\ timeoutCh' = Tail(timeoutCh)
    /\ pcMain' = "returned"
    /\ returnedVia' = "timeout"
    /\ UNCHANGED << rpcURLs, expectedChainID, behaviours, launched, wpc, verdict, wg,
                    dpc, doneClosed, resultCh, timerFired, fireSnap, workingRPCs, api,
                    output, validateVars, chainVars >>

\* Faulty variant: on done the collector returns at once, without the drain loop.
CollectDone_NoDrain ==
    /\ pcMain = "collect"
    /\ doneClosed
    /\ pcMain' = "returned"
    /\ returnedVia' = "done"
    /\ UNCHANGED << rpcURLs, expectedChainID, behaviours, launched, wpc, verdict, wg,
                    dpc, doneClosed, resultCh, timeoutCh, timerFired, fireSnap,
                    workingRPCs, api, output, validateVars, chainVars >>

\* Collector, case <-done: enter the drain loop.
CollectDone ==
    /\ pcMain = "collect"
    /\ doneClosed
    /\ pcMain' = "drain"
    /\ UNCHANGED << rpcURLs, expectedChainID, behaviours, launched, wpc, verdict, wg,
                    dpc, doneClosed, resultCh, timeoutCh, timerFired, fireSnap,
                    workingRPCs, returnedVia, api, output, validateVars, chainVars >>

\* Drain loop, case url := <-resultCh: append.
DrainResult ==
    /\ pcMain = "drain"
    /\ resultCh # << >>
    /\ workingRPCs' = Append(workingRPCs, Head(resultCh))
    /\ resultCh' = Tail(resultCh)
    /\ UNCHANGED << rpcURLs, expectedChainID, behaviours, pcMain, launched, wpc, verdict,
                    wg, dpc, doneClosed, timeoutCh, timerFired, fireSnap, returnedVia,
                    api, output, validateVars, chainVars >>

\* Faulty variant: the drain loop takes its default branch with results still buffered.
DrainDefault_Early ==
    /\ pcMain = "drain"
    /\ pcMain' = "returned"
    /\ returnedVia' = "done"
    /\ UNCHANGED << rpcURLs, expectedChainID, behaviours, launched, wpc, verdict, wg,
                    dpc, doneClosed, resultCh, timeoutCh, timerFired, fireSnap,
                    workingRPCs, api, output, validateVars, chainVars >>

\* Drain loop, default (taken only when resultCh is empty): return workingRPCs.
DrainDefault ==
    /\ pcMain = "drain"
    /\ resultCh = << >>
    /\ pcMain' = "returned"
    /\ returnedVia' = "done"
    /\ UNCHANGED << rpcURLs, expectedChainID, behaviours, launched, wpc, verdict, wg,
                    dpc, doneClosed, resultCh, timeoutCh, timerFired, fireSnap,
                    workingRPCs, api, output, validateVars, chainVars >>

(***************************************************************************)
(* The exported calls and the `all` command                                 *)
(***************************************************************************)
\* Faulty variant: the empty result is returned without the error.
FindAllWorkingRPCs_NoEmptyCheck ==
    /\ pcMain = "returned"
    /\ api.fn = "none"
    /\ api' = [ fn |-> "FindAllWorkingRPCs", err |-> "nil", result |-> workingRPCs ]
    /\ UNCHANGED << rpcURLs, expectedChainID, behaviours, pcMain, launched, wpc, verdict,
                    wg, dpc, doneClosed, resultCh, timeoutCh, timerFired, fireSnap,
                    workingRPCs, returnedVia, output, validateVars, chainVars >>

\* FindAllWorkingRPCs, after findWorkingRPCsConcurrently has returned.
FindAllWorkingRPCs ==
    /\ pcMain = "returned"
    /\ api.fn = "none"
    /\ api' = IF Len(workingRPCs) = 0
              THEN [ fn |-> "FindAllWorkingRPCs", err |-> "ErrNoRPCsFound",
                     result |-> << >> ]
              ELSE [ fn |-> "FindAllWorkingRPCs", err |-> "nil", result |-> workingRPCs ]
    /\ UNCHANGED << rpcURLs, expectedChainID, behaviours, pcMain, launched, wpc, verdict,
                    wg, dpc, doneClosed, resultCh, timeoutCh, timerFired, fireSnap,
                    workingRPCs, returnedVia, output, validateVars, chainVars >>

\* FindRandomWorkingRPC, after findWorkingRPCsConcurrently has returned:
\* r.Intn(len(workingRPCs)) picks the index.
FindRandomWorkingRPC ==
    /\ pcMain = "returned"
    /\ api.fn = "none"
    /\ IF Len(workingRPCs) = 0
       THEN api' = [ fn |-> "FindRandomWorkingRPC", err |-> "ErrNoRPCsFound",
                     result |-> << >> ]
       ELSE \E randomIndex \in 1..Len(workingRPCs) :
              api' = [ fn |-> "FindRandomWorkingRPC", err |-> "nil",
                       result |-> << workingRPCs[randomIndex] >> ]
    /\ UNCHANGED << rpcURLs, expectedChainID, behaviours, pcMain, launched, wpc, verdict,
                    wg, dpc, doneClosed, resultCh, timeoutCh, timerFired, fireSnap,
                    workingRPCs, returnedVia, output, validateVars, chainVars >>

\* The swap function handed to r.Shuffle.
swap(s, i, j) == [s EXCEPT ![i] = s[j], ![j] = s[i]]

\* r.Shuffle(n, swap): for i from n down to 2, swap i with some j <= i.
RECURSIVE shuffleFrom(_, _)
shuffleFrom(s, i) ==
    IF i <= 1 THEN { s }
    ELSE UNION { shuffleFrom(swap(s, i, j), i - 1) : j \in 1..i }

\* allCmd.RunE after FindAllWorkingRPCs returned without error: shuffle, print.
AllCmdShuffle ==
    /\ api.fn = "FindAllWorkingRPCs"
    /\ api.err = "nil"
    /\ ~output.printed
    /\ output' \in { [ printed |-> TRUE, lines |-> t ] :
                      t \in shuffleFrom(api.result, Len(api.result)) }
    /\ UNCHANGED << rpcURLs, expectedChainID, behaviours, pcMain, launched, wpc, verdict,
                    wg, dpc, doneClosed, resultCh, timeoutCh, timerFired, fireSnap,
                    workingRPCs, returnedVia, api, validateVars, chainVars >>

ProberNext ==
    \/ TimerFire
    \/ Launch
    \/ SpawnDone
    \/ \E i \in Workers : WorkerValidate(i)
    \/ \E i \in Workers : WorkerSend(i)
    \/ \E i \in Workers : WorkerTimeout(i)
    \/ \E i \in Workers : WorkerDone(i)
    \/ DoneWait
    \/ DoneClose
    \/ CollectResult
    \/ CollectTimeout
    \/ CollectDone
    \/ DrainResult
    \/ DrainDefault
    \/ FindAllWorkingRPCs
    \/ FindRandomWorkingRPC
    \/ AllCmdShuffle

(***************************************************************************)
(* One validation, inputs drawn from the bounded sets                       *)
(***************************************************************************)
NotProbed ==
    [ made |-> FALSE, working |-> FALSE, transport |-> "none",
      overHTTP |-> FALSE, overWS |-> FALSE ]

ValidateIdle ==
    /\ vUrl = URL_https
    /\ vResp = goodResponse(Str_0x1)
    /\ vExpected = 1
    /\ vOut = NotProbed

ProberIdle ==
    /\ rpcURLs = << >>
    /\ expectedChainID = 1
    /\ behaviours = {}
    /\ pcMain = "idle"
    /\ launched = 0
    /\ wpc = << >>
    /\ verdict = << >>
    /\ wg = 0
    /\ dpc = "idle"
    /\ doneClosed = FALSE
    /\ resultCh = << >>
    /\ timeoutCh = << >>
    /\ timerFired = FALSE
    /\ fireSnap = NoSnap
    /\ workingRPCs = << >>
    /\ returnedVia = "none"
    /\ api = NoCall
    /\ output = NotPrinted

ValidateInit ==
    /\ vUrl \in URLs
    /\ vResp \in Responses
    /\ vExpected \in ExpectedIDs
    /\ vOut = NotProbed

\* isRPCWorkingWithTimeout(vUrl, vExpected, timeout) against an endpoint that
\* behaves as vResp; overHTTP and overWS are the verdicts of the two transport
\* functions on an endpoint of their own scheme that behaves the same way.
Probe ==
    /\ ~vOut.made
    /\ vOut' = [ made |-> TRUE,
                 working |-> isRPCWorkingWithTimeout(vUrl, vResp, vExpected),
                 transport |-> transportOf(vUrl),
                 overHTTP |-> isHTTPRPCWorking(URL_https, vResp, vExpected),
                 overWS |-> isWebSocketRPCWorking(URL_wss, vResp, vExpected) ]
    /\ UNCHANGED << vUrl, vResp, vExpected >>
    /\ UNCHANGED << proberVars, chainVars >>

(***************************************************************************)
(* pkg/chain: names.  strings.TrimSpace cuts leading and trailing white     *)
(* space, strings.ToLower maps letters to lower case, strings.ReplaceAll    *)
(* turns every space into a hyphen.                                         *)
(***************************************************************************)
MaxChains == 2      \* longest feed
MaxNameLen == 3     \* longest alias
MaxEntries == 3     \* longest byId section of an artifact not written by buildCache

isSpace(c) == c \in { " ", "\t" }

lowerOf(c) ==
    CASE c = "E" -> "e"
      [] c = "M" -> "m"
      [] c = "S" -> "s"
      [] c = "X" -> "x"
      [] OTHER   -> c

RECURSIVE trimLeft(_)
trimLeft(s) ==
    IF s # << >> /\ isSpace(s[1]) THEN trimLeft(Tail(s)) ELSE s

RECURSIVE trimRight(_)
trimRight(s) ==
    IF s # << >> /\ isSpace(s[Len(s)]) THEN trimRight(SubSeq(s, 1, Len(s) - 1)) ELSE s

TrimSpace(s) == trimRight(trimLeft(s))

ToLower(s) == [ k \in 1..Len(s) |-> lowerOf(s[k]) ]

ReplaceSpaces(s) == [ k \in 1..Len(s) |-> IF s[k] = " " THEN "-" ELSE s[k] ]

\* Faulty variant: the spaces are replaced before the name is trimmed.
normalizeChainName_ReplaceFirst(name) == TrimSpace(ToLower(ReplaceSpaces(name)))

normalizeChainName(name) == ReplaceSpaces(ToLower(TrimSpace(name)))

\* strings.Contains
Contains(s, sub) ==
    \E k \in 0..(Len(s) - Len(sub)) : SubSeq(s, k + 1, k + Len(sub)) = sub

Str_ethereum == << "e", "t", "h", "e", "r", "e", "u", "m", "-" >>
Str_mainnet  == << "-", "m", "a", "i", "n", "n", "e", "t" >>

\* Raw aliases as a feed carries them.
Name_EthereumS == << "E", "t", "h", "e", "r", "e", "u", "m", " ", "S" >>
Name_S         == << "S" >>
Name_SMainnet  == << "S", " ", "M", "a", "i", "n", "n", "e", "t" >>
Name_X         == << " ", "X", "\t" >>
Name_sx        == << "s", " ", "x" >>
Name_EthereumSx == << "E", "t", "h", "e", "r", "e", "u", "m", " ", "S", "x" >>
Name_Q         == << "q", "\"" >>
Name_x         == << "x" >>
NoName         == << >>

(***************************************************************************)
(* Chain IDs and their decimal form: the keys of byId in the artifact are   *)
(* written by json.Marshal as decimal numerals and read back with           *)
(* strconv.ParseUint(str, 10, 64).                                          *)
(***************************************************************************)
Digits == << "0", "1", "2", "3", "4", "5", "6", "7", "8", "9" >>

RECURSIVE FormatUint(_)
FormatUint(n) ==
    IF n < 10 THEN << Digits[n + 1] >>
    ELSE Append(FormatUint(n \div 10), Digits[(n % 10) + 1])

isDigit(c) == \E d \in 1..10 : Digits[d] = c

digitOf(c) == (CHOOSE d \in 1..10 : Digits[d] = c) - 1

RECURSIVE accumulate10(_, _)
accumulate10(s, n) ==
    IF s = << >> THEN n
    ELSE IF ~isDigit(s[1]) THEN ParseErr
    ELSE accumulate10(Tail(s), n * 10 + digitOf(s[1]))

ParseUint10(s) == IF s = << >> THEN ParseErr ELSE accumulate10(s, 0)

\* Order of strings, character by character (the order in which json.Marshal
\* writes the keys of a map).
charRank(c) == IF isDigit(c) THEN digitOf(c) ELSE 10

RECURSIVE StrLess(_, _)
StrLess(a, b) ==
    IF b = << >> THEN FALSE
    ELSE IF a = << >> THEN TRUE
    ELSE IF a[1] = b[1] THEN StrLess(Tail(a), Tail(b))
    ELSE charRank(a[1]) < charRank(b[1])

RECURSIVE sortKeys(_)
sortKeys(S) ==
    IF S = {} THEN << >>
    ELSE LET m == CHOOSE x \in S : \A y \in S \ { x } : StrLess(x, y)
         IN  << m >> \o sortKeys(S \ { m })

(***************************************************************************)
(* Chain records and feeds.  Of ChainData the fields the cache reads are    *)
(* kept: the three aliases and the chain ID.                                *)
(***************************************************************************)
\* A slice is nil or has a sequence of items; a nil slice has none.
NilSlice == [ isNil |-> TRUE, items |-> << >> ]

Slice(items) == [ isNil |-> FALSE, items |-> items ]

RPC(url, tracking) == [ URL |-> url, Tracking |-> tracking ]

\* Of the members of ChainData: the three aliases, the chain ID and the
\* endpoint list, nil unless withRPCs sets it.
ChainData(name, shortName, chainSlug, chainID) ==
    [ Name |-> name, ShortName |-> shortName, ChainSlug |-> chainSlug,
      ChainID |-> chainID, RPCs |-> NilSlice ]

withRPCs(rec, rpcs) == [ rec EXCEPT !.RPCs = rpcs ]

ChainIDs == { 1, 8, 10 }

\* Records with a chain ID in common (the first and the fourth) and with an
\* alias in common (the second and the fourth; the fourth and the fifth); the
\* sixth has a name that contains the first one's and an alias with a quote.
\* The slug of the second and the short name of the fourth and the fifth
\* differ and have the same normal form.  The endpoint list of the fifth is
\* empty and not nil, that of the sixth has one endpoint.
ChainRecords ==
    { ChainData(Name_EthereumS, NoName, NoName, 1),
      ChainData(Name_S, NoName, Name_x, 8),
      ChainData(Name_SMainnet, NoName, NoName, 10),
      ChainData(Name_S, Name_X, NoName, 1),
      withRPCs(ChainData(NoName, Name_X, Name_sx, 10), Slice(<< >>)),
      withRPCs(ChainData(Name_EthereumSx, Name_Q, NoName, 8),
               Slice(<< RPC(<< "u" >>, << >>) >>)) }

Feeds == SeqsUpTo(ChainRecords, MaxChains)

NoRecord == ChainData(NoName, NoName, NoName, 0)

(***************************************************************************)
(* Go maps, as sets of << key, value >> pairs with pairwise distinct keys.  *)
(***************************************************************************)
mapKeys(m) == { e[1] : e \in m }

mapGet(m, k) == (CHOOSE e \in m : e[1] = k)[2]

mapPut(m, k, v) == { e \in m : e[1] # k } \cup { << k, v >> }

(***************************************************************************)
(* buildCache, lines 634-665: what one insert goroutine does to cacheData   *)
(* while it holds mu.                                                       *)
(***************************************************************************)
EmptyCacheData == [ ByID |-> {}, ByName |-> {} ]

insertByID(cd, chain) ==
    [ cd EXCEPT !.ByID = mapPut(@, chain.ChainID, chain) ]

\* Faulty variant: an empty alias is inserted as well.
putAlias_Unguarded(byName, alias, chainID) ==
    mapPut(byName, normalizeChainName(alias), chainID)

putAlias(byName, alias, chainID) ==
    IF alias # << >> THEN mapPut(byName, normalizeChainName(alias), chainID)
    ELSE byName

insertByName(cd, chain) ==
    [ cd EXCEPT !.ByName =
        putAlias(putAlias(putAlias(@, chain.Name, chain.ChainID),
                          chain.ShortName, chain.ChainID),
                 chain.ChainSlug, chain.ChainID) ]

insert(cd, chain) == insertByName(insertByID(cd, chain), chain)

\* The maps after the goroutines of feed took mu in the order given.
RECURSIVE insertAll(_, _, _)
insertAll(cd, feed, order) ==
    IF order = << >> THEN cd
    ELSE insertAll(insert(cd, feed[order[1]]), feed, Tail(order))

Orders(n) == { o \in [1..n -> 1..n] : \A a, b \in 1..n : o[a] = o[b] => a = b }

(***************************************************************************)
(* The artifact.  json.Marshal writes {"byId":{...},"byName":{...}}: the    *)
(* byId section as the sequence of its entries, keys in decimal and in      *)
(* string order, then the byName section.  cut tells where the content      *)
(* ends: "none" for a whole document, "byId" inside the byId section after  *)
(* the entries listed, "byName" inside the byName section.                  *)
(***************************************************************************)
CACHE_TTL == 30     \* days

Ages == { 0, CACHE_TTL - 1, CACHE_TTL, CACHE_TTL + 1 }

\* Faulty variant: no character is escaped.
escape_None(s) == s

\* A string as JSON text: between quotes, a quote or a backslash of the
\* string preceded by a backslash.
RECURSIVE escape(_)
escape(s) ==
    IF s = << >> THEN << >>
    ELSE IF s[1] \in { "\"", "\\" } THEN << "\\", s[1] >> \o escape(Tail(s))
    ELSE << s[1] >> \o escape(Tail(s))

\* The string of a JSON text read from after its opening quote: it ends at
\* the first quote that no backslash precedes.
RECURSIVE unescape(_)
unescape(t) ==
    IF t = << >> \/ t[1] = "\"" THEN << >>
    ELSE IF t[1] = "\\" /\ Len(t) >= 2 THEN << t[2] >> \o unescape(SubSeq(t, 3, Len(t)))
    ELSE << t[1] >> \o unescape(Tail(t))

quote(s) == << "\"" >> \o escape(s) \o << "\"" >>

unquote(t) == unescape(Tail(t))

\* json.Marshal of a slice: null for a nil slice, else the array of the
\* encoded items.
encodeRPCs(rpcs) ==
    [ null |-> rpcs.isNil,
      elems |-> [ k \in 1..Len(rpcs.items) |->
                    [ url |-> quote(rpcs.items[k].URL),
                      tracking |-> quote(rpcs.items[k].Tracking) ] ] ]

\* Decode into a slice: null leaves it nil, an array, also the empty one,
\* makes it a slice of the decoded items.
decodeRPCs(value) ==
    IF value.null THEN NilSlice
    ELSE Slice([ k \in 1..Len(value.elems) |->
                   RPC(unquote(value.elems[k].url), unquote(value.elems[k].tracking)) ])

\* json.Marshal of a ChainData: the members under their JSON names, strings
\* as JSON text and the chain ID as a decimal numeral.
encodeRecord(rec) ==
    [ name |-> quote(rec.Name), shortName |-> quote(rec.ShortName),
      chainId |-> FormatUint(rec.ChainID), chainSlug |-> quote(rec.ChainSlug),
      rpc |-> encodeRPCs(rec.RPCs) ]

\* decoder.Decode(&chainData)
decodeRecord(value) ==
    withRPCs(ChainData(unquote(value.name), unquote(value.shortName),
                       unquote(value.chainSlug), ParseUint10(value.chainId)),
             decodeRPCs(value.rpc))

Marshal(cd) ==
    LET keys == sortKeys({ FormatUint(id) : id \in mapKeys(cd.ByID) })
    IN  [ cut |-> "none",
          byId |-> [ k \in 1..Len(keys) |->
                       << keys[k], encodeRecord(mapGet(cd.ByID, ParseUint10(keys[k]))) >> ],
          byName |-> cd.ByName ]

NoContent == [ cut |-> "byId", byId |-> << >>, byName |-> {} ]

\* What is on disk when a write of data stops before its end.
Truncations(data) ==
    { [ cut |-> "byId", byId |-> SubSeq(data.byId, 1, k), byName |-> {} ] :
          k \in 0..Len(data.byId) }
    \cup { [ cut |-> "byName", byId |-> data.byId, byName |-> {} ] }

NoFile == [ exists |-> FALSE, age |-> 0, content |-> NoContent ]

FileOf(data) == [ exists |-> TRUE, age |-> 0, content |-> data ]

(***************************************************************************)
(* Lookups.  A result carries the error (a kind, "nil" for none), what the   *)
(* call returned or named in its error message, the keys of the byId        *)
(* section whose values the call decoded into a ChainData, in that order,   *)
(* and the number of keys of that section findChainInByID read.             *)
(***************************************************************************)
Result(err, rec, id, name, keys) ==
    [ err |-> err, rec |-> rec, id |-> id, name |-> name, keys |-> keys,
      decoded |-> << >>, scanned |-> 0 ]

\* res, reached after one more key of the byId section was read
afterKey(res) == [ res EXCEPT !.scanned = @ + 1 ]

\* res, reached after the values under the keys of before were decoded
afterDecoding(before, res) == [ res EXCEPT !.decoded = before \o @ ]

Failed(err) == Result(err, NoRecord, 0, << >>, {})

\* Faulty variant: the first entry of the section is taken for the match.
findChainInByID_First(entries, cut, targetChainId) ==
    IF entries = << >>
    THEN IF cut = "byId" THEN Failed("read") ELSE Failed("ErrChainNotFound")
    ELSE afterDecoding(<< entries[1][1] >>,
                       Result("nil", decodeRecord(entries[1][2]), 0, << >>, {}))

\* Faulty variant: the scan goes on after a match, decoding each matching
\* value, and returns the last one.
RECURSIVE findChainInByID_Last(_, _, _)
findChainInByID_Last(entries, cut, targetChainId) ==
    IF entries = << >>
    THEN IF cut = "byId" THEN Failed("read") ELSE Failed("ErrChainNotFound")
    ELSE LET chainId == ParseUint10(entries[1][1])
             rest == findChainInByID_Last(Tail(entries), cut, targetChainId)
             here == Result("nil", decodeRecord(entries[1][2]), 0, << >>, {})
         IN  IF chainId # targetChainId THEN afterKey(rest)
             ELSE afterKey(afterDecoding(<< entries[1][1] >>,
                                         IF rest.err = "nil" THEN rest
                                         ELSE [ here EXCEPT !.scanned = rest.scanned ]))

\* Faulty variant: a key that is no decimal numeral ends the lookup.
RECURSIVE findChainInByID_Strict(_, _, _)
findChainInByID_Strict(entries, cut, targetChainId) ==
    IF entries = << >>
    THEN IF cut = "byId" THEN Failed("read") ELSE Failed("ErrChainNotFound")
    ELSE LET chainId == ParseUint10(entries[1][1])
         IN  afterKey(IF chainId = ParseErr THEN Failed("parse")
                      ELSE IF chainId = targetChainId
                      THEN afterDecoding(<< entries[1][1] >>,
                                         Result("nil", decodeRecord(entries[1][2]), 0, << >>, {}))
                      ELSE findChainInByID_Strict(Tail(entries), cut, targetChainId))

\* The loop over the entries of the byId section: the key is read and
\* parsed; the value is decoded into a ChainData when the key is the target,
\* and skipped otherwise, also when the key is no decimal numeral.
RECURSIVE findChainInByID(_, _, _)
findChainInByID(entries, cut, targetChainId) ==
    IF entries = << >>
    THEN IF cut = "byId" THEN Failed("read") ELSE Failed("ErrChainNotFound")
    ELSE LET chainId == ParseUint10(entries[1][1])
         IN  afterKey(IF chainId = ParseErr
                      THEN findChainInByID(Tail(entries), cut, targetChainId)
                      ELSE IF chainId = targetChainId
                      THEN afterDecoding(<< entries[1][1] >>,
                                         Result("nil", decodeRecord(entries[1][2]), 0, << >>, {}))
                      ELSE findChainInByID(Tail(entries), cut, targetChainId))

loadChainByID(file, chainId) ==
    IF ~file.exists THEN Failed("open")
    ELSE findChainInByID(file.content.byId, file.content.cut, chainId)

\* The keys of a byId section, in the order of the document.
keysOf(entries) == [ k \in 1..Len(entries) |-> entries[k][1] ]

\* json.NewDecoder(file).Decode(&cacheData) fills cacheData.ByID as well as
\* cacheData.ByName: every value of the byId section is decoded into a
\* ChainData, before the byName section is reached.
loadNameMapping(file) ==
    IF ~file.exists THEN [ err |-> "open", byName |-> {}, decoded |-> << >> ]
    ELSE IF file.content.cut # "none"
    THEN [ err |-> "decode", byName |-> {}, decoded |-> keysOf(file.content.byId) ]
    ELSE [ err |-> "nil", byName |-> file.content.byName,
           decoded |-> keysOf(file.content.byId) ]

\* Faulty variant: of several matching keys, one is taken.
findChainIdByPartialMatch_PickOne(nameMapping, name) ==
    LET matchingKeys == { key \in mapKeys(nameMapping) : Contains(key, name) }
    IN  IF Cardinality(matchingKeys) >= 1
        THEN Result("nil", NoRecord,
                    mapGet(nameMapping, CHOOSE key \in matchingKeys : TRUE), << >>, {})
        ELSE Result("notFoundForName", NoRecord, 0, name, {})

\* Faulty variant: matching keys of one chain resolve to that chain.
findChainIdByPartialMatch_ByChain(nameMapping, name) ==
    LET matchingKeys == { key \in mapKeys(nameMapping) : Contains(key, name) }
        matchingIDs == { mapGet(nameMapping, key) : key \in matchingKeys }
    IN  IF Cardinality(matchingIDs) = 1
        THEN Result("nil", NoRecord, CHOOSE id \in matchingIDs : TRUE, << >>, {})
        ELSE IF Cardinality(matchingKeys) > 1
        THEN Result("multiple", NoRecord, 0, name, matchingKeys)
        ELSE Result("notFoundForName", NoRecord, 0, name, {})

findChainIdByPartialMatch(nameMapping, name) ==
    LET matchingKeys == { key \in mapKeys(nameMapping) : Contains(key, name) }
    IN  IF Cardinality(matchingKeys) = 1
        THEN Result("nil", NoRecord,
                    mapGet(nameMapping, CHOOSE key \in matchingKeys : TRUE), << >>, {})
        ELSE IF Cardinality(matchingKeys) > 1
        THEN Result("multiple", NoRecord, 0, name, matchingKeys)
        ELSE Result("notFoundForName", NoRecord, 0, name, {})

\* Faulty variant: the name mapping is not asked for the name itself.
findChainIDByName_NoExact(file, normalizedName) ==
    LET loaded == loadNameMapping(file)
        nameMapping == loaded.byName
        byEthereum == findChainIdByPartialMatch(nameMapping, Str_ethereum \o normalizedName)
        byMainnet == findChainIdByPartialMatch(nameMapping, normalizedName \o Str_mainnet)
    IN  IF loaded.err # "nil" THEN Failed(loaded.err)
        ELSE IF byEthereum.err = "nil" THEN byEthereum
        ELSE IF byMainnet.err = "nil" THEN byMainnet
        ELSE findChainIdByPartialMatch(nameMapping, normalizedName)

\* Faulty variant: the "-mainnet" form is tried before the "ethereum-" form.
findChainIDByName_MainnetFirst(file, normalizedName) ==
    LET loaded == loadNameMapping(file)
        nameMapping == loaded.byName
        byEthereum == findChainIdByPartialMatch(nameMapping, Str_ethereum \o normalizedName)
        byMainnet == findChainIdByPartialMatch(nameMapping, normalizedName \o Str_mainnet)
    IN  IF loaded.err # "nil" THEN Failed(loaded.err)
        ELSE IF normalizedName \in mapKeys(nameMapping)
        THEN Result("nil", NoRecord, mapGet(nameMapping, normalizedName), << >>, {})
        ELSE IF byMainnet.err = "nil" THEN byMainnet
        ELSE IF byEthereum.err = "nil" THEN byEthereum
        ELSE findChainIdByPartialMatch(nameMapping, normalizedName)

\* Faulty variant: an ambiguity found at the second tier is returned.
findChainIDByName_ReportPrefixed(file, normalizedName) ==
    LET loaded == loadNameMapping(file)
        nameMapping == loaded.byName
        byEthereum == findChainIdByPartialMatch(nameMapping, Str_ethereum \o normalizedName)
        byMainnet == findChainIdByPartialMatch(nameMapping, normalizedName \o Str_mainnet)
    IN  afterDecoding(loaded.decoded,
            IF loaded.err # "nil" THEN Failed(loaded.err)
            ELSE IF normalizedName \in mapKeys(nameMapping)
            THEN Result("nil", NoRecord, mapGet(nameMapping, normalizedName), << >>, {})
            ELSE IF byEthereum.err \in { "nil", "multiple" } THEN byEthereum
            ELSE IF byMainnet.err = "nil" THEN byMainnet
            ELSE findChainIdByPartialMatch(nameMapping, normalizedName))

findChainIDByName(file, normalizedName) ==
    LET loaded == loadNameMapping(file)
        nameMapping == loaded.byName
        byEthereum == findChainIdByPartialMatch(nameMapping, Str_ethereum \o normalizedName)
        byMainnet == findChainIdByPartialMatch(nameMapping, normalizedName \o Str_mainnet)
    IN  afterDecoding(loaded.decoded,
            IF loaded.err # "nil" THEN Failed(loaded.err)
            ELSE IF normalizedName \in mapKeys(nameMapping)
            THEN Result("nil", NoRecord, mapGet(nameMapping, normalizedName), << >>, {})
            ELSE IF byEthereum.err = "nil" THEN byEthereum
            ELSE IF byMainnet.err = "nil" THEN byMainnet
            ELSE findChainIdByPartialMatch(nameMapping, normalizedName))

loadChainByName(file, name) ==
    LET found == findChainIDByName(file, normalizeChainName(name))
        loaded == loadChainByID(file, found.id)
    IN  IF found.err # "nil" THEN found
        ELSE [ afterDecoding(found.decoded \o loaded.decoded,
                             Result(loaded.err, loaded.rec, found.id, << >>, {}))
                 EXCEPT !.scanned = loaded.scanned ]

(***************************************************************************)
(* The cache of one process, call after call.                               *)
(***************************************************************************)
\* The feeds chainlist.org serves in this part: one chain, then two others.
StoreFeeds ==
    { << ChainData(Name_S, NoName, NoName, 8) >>,
      << ChainData(Name_EthereumS, NoName, NoName, 1),
         ChainData(Name_SMainnet, NoName, NoName, 10) >> }

LookupIDs == ChainIDs \cup { 2 }

\* What the calls of this part ask for: a chain of each feed, a name that
\* resolves in both and one that resolves in none.
StoreIDs == { 1, 8 }

StoreQueries == { << " ", "S", " " >>, << "z" >> }

\* Raw names a user asks for.
Queries ==
    { << "s" >>, << " ", "S", " " >>, << "x" >>, << "e" >>, << "z" >>, << "-" >>,
      Name_EthereumS }

\* What the feed server does to the one http.Get: the transport fails, the
\* status is not 200, the body is no JSON array of chains, or the feed.
FeedResponses == { "transport", "non200", "garbled", "ok" }

\* The error of buildCache that a response leads to, before any write.
errorOf(response) ==
    IF response = "transport" THEN "fetch"
    ELSE IF response = "non200" THEN "status"
    ELSE IF response = "garbled" THEN "decode"
    ELSE "nil"

\* Faulty variant: the new maps are added to the ones of the prior artifact.
buildCache_Merge(file) ==
    { [ err |-> errorOf(r), response |-> r, fetches |-> 1, feed |-> << >>, file |-> file ] :
         r \in FeedResponses \ { "ok" } }
    \cup UNION { UNION { LET prior == [ ByID |-> { << ParseUint10(file.content.byId[k][1]),
                                                     decodeRecord(file.content.byId[k][2]) >> :
                                                      k \in 1..Len(file.content.byId) },
                                        ByName |-> file.content.byName ]
                             data == Marshal(insertAll(prior, feed, order))
                         IN  { [ err |-> "nil", response |-> "ok", fetches |-> 1,
                                 feed |-> feed, file |-> FileOf(data) ] } :
                         order \in Orders(Len(feed)) } :
                 feed \in StoreFeeds }

\* Faulty variant: a fetch that failed is tried once more before the error
\* is returned.
buildCache_Retry(file) ==
    { [ err |-> errorOf(r), response |-> r, fetches |-> 2, feed |-> << >>, file |-> file ] :
         r \in FeedResponses \ { "ok" } }
    \cup UNION { UNION { LET data == Marshal(insertAll(EmptyCacheData, feed, order))
                         IN  { [ err |-> "nil", response |-> "ok", fetches |-> 1,
                                 feed |-> feed, file |-> FileOf(data) ] } :
                         order \in Orders(Len(feed)) } :
                 feed \in StoreFeeds }

\* The ways one run of buildCache on the artifact file can end: its error
\* ("nil" for success), what the feed server answered, the number of
\* http.Get calls, the feed it decoded, and the artifact it leaves.
\* http.Get fails ("fetch"), answers another status than 200 ("status") or a
\* body that does not decode ("decode"): nothing is written.  json.Marshal
\* cannot fail on a CacheData, so no run ends at that step.  os.WriteFile
\* opens the file with O_TRUNC and then writes: it fails before the file is
\* touched, or after it was cut to length 0 and a part of data was written.
buildCache(file) ==
    { [ err |-> errorOf(r), response |-> r, fetches |-> 1, feed |-> << >>, file |-> file ] :
         r \in FeedResponses \ { "ok" } }
    \cup UNION { UNION { LET data == Marshal(insertAll(EmptyCacheData, feed, order))
                         IN  { [ err |-> "nil", response |-> "ok", fetches |-> 1,
                                 feed |-> feed, file |-> FileOf(data) ],
                               [ err |-> "write", response |-> "ok", fetches |-> 1,
                                 feed |-> feed, file |-> file ] }
                             \cup { [ err |-> "write", response |-> "ok", fetches |-> 1,
                                      feed |-> feed, file |-> FileOf(t) ] :
                                       t \in Truncations(data) } :
                         order \in Orders(Len(feed)) } :
                 feed \in StoreFeeds }

\* Faulty variant: an artifact aged exactly CACHE_TTL still counts as fresh.
ensureCacheExists_Inclusive(file, force) ==
    LET cacheExists == ~force /\ file.exists /\ file.age <= CACHE_TTL
    IN  IF cacheExists
        THEN { [ usable |-> TRUE, rebuilds |-> 0, buildErr |-> "nil", feed |-> << >>,
                 response |-> "none", fetches |-> 0, err |-> "nil", file |-> file ] }
        ELSE { [ usable |-> FALSE, rebuilds |-> 1, buildErr |-> b.err, feed |-> b.feed,
                 response |-> b.response, fetches |-> b.fetches,
                 err |-> IF b.err # "nil" /\ ~b.file.exists THEN b.err ELSE "nil",
                 file |-> b.file ] : b \in buildCache(file) }

\* Faulty variant: a failed rebuild is always surfaced.
ensureCacheExists_NoFallback(file, force) ==
    LET cacheExists == ~force /\ file.exists /\ file.age < CACHE_TTL
    IN  IF cacheExists
        THEN { [ usable |-> TRUE, rebuilds |-> 0, buildErr |-> "nil", feed |-> << >>,
                 response |-> "none", fetches |-> 0, err |-> "nil", file |-> file ] }
        ELSE { [ usable |-> FALSE, rebuilds |-> 1, buildErr |-> b.err, feed |-> b.feed,
                 response |-> b.response, fetches |-> b.fetches,
                 err |-> b.err, file |-> b.file ] : b \in buildCache(file) }

\* The ways ensureCacheExists can end.
ensureCacheExists(file, force) ==
    LET cacheExists == ~force /\ file.exists /\ file.age < CACHE_TTL
    IN  IF cacheExists
        THEN { [ usable |-> TRUE, rebuilds |-> 0, buildErr |-> "nil", feed |-> << >>,
                 response |-> "none", fetches |-> 0, err |-> "nil", file |-> file ] }
        ELSE { [ usable |-> FALSE, rebuilds |-> 1, buildErr |-> b.err, feed |-> b.feed,
                 response |-> b.response, fetches |-> b.fetches,
                 err |-> IF b.err # "nil" /\ ~b.file.exists THEN b.err ELSE "nil",
                 file |-> b.file ] : b \in buildCache(file) }

NoEnsure ==
    [ usable |-> FALSE, rebuilds |-> 0, buildErr |-> "nil", feed |-> << >>,
      response |-> "none", fetches |-> 0, err |-> "nil", file |-> NoFile ]

\* A call: the artifact and the flag it found, how its ensureCacheExists (or
\* its rebuild) ended, whether it went on to the lookup, and what it returned.
\* afterForced tells of a FetchChainData or FetchChainDataByName that the call
\* before it was one whose forced rebuild succeeded.
Call(op, id, name, prior, force, e, looked, res) ==
    [ op |-> op, id |-> id, name |-> name, prior |-> prior, force |-> force,
      usable |-> e.usable, rebuilds |-> e.rebuilds, buildErr |-> e.buildErr,
      feed |-> e.feed, response |-> e.response, fetches |-> e.fetches,
      ensureErr |-> e.err, looked |-> looked, res |-> res, afterForced |-> FALSE ]

\* The operations that begin with ensureCacheExists.
Fetches == { "FetchChainData", "FetchChainDataByName" }

\* The last call was a FetchChainData or FetchChainDataByName that found the
\* flag set and whose rebuild succeeded.
ForcedRebuildDone ==
    lastCall.op \in Fetches /\ lastCall.force /\ lastCall.buildErr = "nil"

NoCallYet == Call("none", 0, << >>, NoFile, FALSE, NoEnsure, FALSE, Failed("nil"))

StoreInit ==
    /\ cacheFile = NoFile
    /\ forceRebuild = FALSE
    /\ lastCall = NoCallYet

SetForceRebuild ==
    /\ \E force \in BOOLEAN : forceRebuild' = force
    /\ lastCall' = NoCallYet
    /\ UNCHANGED << cacheFile, buildVars, concVars, proberVars, validateVars, normVars >>

\* Time goes by: the artifact grows older.
PassTime ==
    /\ cacheFile.exists
    /\ \E age \in Ages : age > cacheFile.age /\ cacheFile' = [ cacheFile EXCEPT !.age = age ]
    /\ lastCall' = NoCallYet
    /\ UNCHANGED << forceRebuild, buildVars, concVars, proberVars, validateVars, normVars >>

\* Faulty variant: a forced rebuild that succeeded clears the flag.
FetchChainData_ClearsFlag ==
    \E chainId \in StoreIDs, e \in ensureCacheExists(cacheFile, forceRebuild) :
        /\ cacheFile' = e.file
        /\ lastCall' = [ ( IF e.err # "nil"
                           THEN Call("FetchChainData", chainId, << >>, cacheFile, forceRebuild,
                                     e, FALSE, Failed(e.err))
                           ELSE Call("FetchChainData", chainId, << >>, cacheFile, forceRebuild,
                                     e, TRUE, loadChainByID(e.file, chainId)) )
                         EXCEPT !.afterForced = ForcedRebuildDone ]
        /\ forceRebuild' = (forceRebuild /\ e.buildErr # "nil")
        /\ UNCHANGED << buildVars, concVars, proberVars, validateVars, normVars >>

FetchChainData ==
    \E chainId \in StoreIDs, e \in ensureCacheExists(cacheFile, forceRebuild) :
        /\ cacheFile' = e.file
        /\ lastCall' = [ ( IF e.err # "nil"
                           THEN Call("FetchChainData", chainId, << >>, cacheFile, forceRebuild,
                                     e, FALSE, Failed(e.err))
                           ELSE Call("FetchChainData", chainId, << >>, cacheFile, forceRebuild,
                                     e, TRUE, loadChainByID(e.file, chainId)) )
                         EXCEPT !.afterForced = ForcedRebuildDone ]
        /\ UNCHANGED << forceRebuild, buildVars, concVars, proberVars, validateVars, normVars >>

FetchChainDataByName ==
    \E name \in StoreQueries, e \in ensureCacheExists(cacheFile, forceRebuild) :
        /\ cacheFile' = e.file
        /\ lastCall' = [ ( IF e.err # "nil"
                           THEN Call("FetchChainDataByName", 0, name, cacheFile, forceRebuild,
                                     e, FALSE, Failed(e.err))
                           ELSE Call("FetchChainDataByName", 0, name, cacheFile, forceRebuild,
                                     e, TRUE, loadChainByName(e.file, name)) )
                         EXCEPT !.afterForced = ForcedRebuildDone ]
        /\ UNCHANGED << forceRebuild, buildVars, concVars, proberVars, validateVars, normVars >>

\* Faulty variant: a file that does not exist is an error as well.
CleanCache_Strict ==
    /\ \E removed \in BOOLEAN :
          /\ removed => cacheFile.exists
          /\ cacheFile' = IF removed THEN NoFile ELSE cacheFile
          /\ lastCall' = Call("CleanCache", 0, << >>, cacheFile, forceRebuild, NoEnsure, FALSE,
                              Failed(IF ~removed THEN "remove" ELSE "nil"))
    /\ UNCHANGED << forceRebuild, buildVars, concVars, proberVars, validateVars, normVars >>

\* os.Remove removes the file, finds none, or fails for another reason.
CleanCache ==
    /\ \E removed \in BOOLEAN :
          /\ removed => cacheFile.exists
          /\ cacheFile' = IF removed THEN NoFile ELSE cacheFile
          /\ lastCall' = Call("CleanCache", 0, << >>, cacheFile, forceRebuild, NoEnsure, FALSE,
                              Failed(IF ~removed /\ cacheFile.exists THEN "remove" ELSE "nil"))
    /\ UNCHANGED << forceRebuild, buildVars, concVars, proberVars, validateVars, normVars >>

\* Faulty variant: BuildCache goes through ensureCacheExists.
BuildCache_Ensure ==
    \E e \in ensureCacheExists(cacheFile, forceRebuild) :
        /\ cacheFile' = e.file
        /\ lastCall' = Call("BuildCache", 0, << >>, cacheFile, forceRebuild, e,
                            FALSE, Failed(e.err))
        /\ UNCHANGED << forceRebuild, buildVars, concVars, proberVars, validateVars, normVars >>

BuildCache ==
    \E b \in buildCache(cacheFile) :
        /\ cacheFile' = b.file
        /\ lastCall' = Call("BuildCache", 0, << >>, cacheFile, forceRebuild,
                            [ usable |-> FALSE, rebuilds |-> 1, buildErr |-> b.err,
                              feed |-> b.feed, response |-> b.response,
                              fetches |-> b.fetches, err |-> b.err, file |-> b.file ],
                            FALSE, Failed(b.err))
        /\ UNCHANGED << forceRebuild, buildVars, concVars, proberVars, validateVars, normVars >>

StoreNext ==
    \/ SetForceRebuild
    \/ PassTime
    \/ FetchChainData
    \/ FetchChainDataByName
    \/ CleanCache
    \/ BuildCache

(***************************************************************************)
(* One run of buildCache from the decoded feed on (lines 634-678), one      *)
(* insert goroutine per record, then lookups on the artifact it wrote.      *)
(***************************************************************************)
Inserters == 1..spawned

NoLookup == [ fn |-> "none", id |-> 0, name |-> << >>, res |-> Failed("nil") ]

BuildIdle ==
    /\ chains = << >>
    /\ bpc = "idle"
    /\ spawned = 0
    /\ ipc = << >>
    /\ mu = 0
    /\ cacheData = EmptyCacheData
    /\ lookup = NoLookup

BuildInit ==
    /\ chains \in Feeds
    /\ bpc = "spawn"
    /\ spawned = 0
    /\ ipc = << >>
    /\ mu = 0
    /\ cacheData = EmptyCacheData
    /\ lookup = NoLookup

\* for i := range chains { wg.Add(1); go func(chain *ChainData) {...}(&chains[i]) }
InsertSpawn ==
    /\ bpc = "spawn"
    /\ spawned < Len(chains)
    /\ spawned' = spawned + 1
    /\ ipc' = Append(ipc, "lock")
    /\ UNCHANGED << chains, bpc, mu, cacheData, lookup,
                    storeVars, concVars, proberVars, validateVars, normVars >>

\* mu.Lock()
InsertLock(i) ==
    /\ ipc[i] = "lock"
    /\ mu = 0
    /\ mu' = i
    /\ ipc' = [ ipc EXCEPT ![i] = "byID" ]
    /\ UNCHANGED << chains, bpc, spawned, cacheData, lookup,
                    storeVars, concVars, proberVars, validateVars, normVars >>

\* Faulty variant: the record is stored in ByID only when it has a name.
InsertByID_NamedOnly(i) ==
    /\ ipc[i] = "byID"
    /\ cacheData' = IF chains[i].Name # << >> THEN insertByID(cacheData, chains[i])
                    ELSE cacheData
    /\ ipc' = [ ipc EXCEPT ![i] = "byName" ]
    /\ UNCHANGED << chains, bpc, spawned, mu, lookup,
                    storeVars, concVars, proberVars, validateVars, normVars >>

\* cacheData.ByID[chain.ChainID] = chain
InsertByID(i) ==
    /\ ipc[i] = "byID"
    /\ cacheData' = insertByID(cacheData, chains[i])
    /\ ipc' = [ ipc EXCEPT ![i] = "byName" ]
    /\ UNCHANGED << chains, bpc, spawned, mu, lookup,
                    storeVars, concVars, proberVars, validateVars, normVars >>

\* the three guarded assignments to cacheData.ByName
InsertByName(i) ==
    /\ ipc[i] = "byName"
    /\ cacheData' = insertByName(cacheData, chains[i])
    /\ ipc' = [ ipc EXCEPT ![i] = "unlock" ]
    /\ UNCHANGED << chains, bpc, spawned, mu, lookup,
                    storeVars, concVars, proberVars, validateVars, normVars >>

\* mu.Unlock(), then the deferred wg.Done()
InsertUnlock(i) ==
    /\ ipc[i] = "unlock"
    /\ mu' = 0
    /\ ipc' = [ ipc EXCEPT ![i] = "done" ]
    /\ UNCHANGED << chains, bpc, spawned, cacheData, lookup,
                    storeVars, concVars, proberVars, validateVars, normVars >>

\* wg.Wait() returns once every goroutine is done
BuildWait ==
    /\ bpc = "spawn"
    /\ spawned = Len(chains)
    /\ \A i \in Inserters : ipc[i] = "done"
    /\ bpc' = "marshal"
    /\ UNCHANGED << chains, spawned, ipc, mu, cacheData, lookup,
                    storeVars, concVars, proberVars, validateVars, normVars >>

\* json.Marshal(cacheData) and os.WriteFile, both succeeding
BuildWrite ==
    /\ bpc = "marshal"
    /\ cacheFile' = FileOf(Marshal(cacheData))
    /\ bpc' = "built"
    /\ UNCHANGED << chains, spawned, ipc, mu, cacheData, lookup, forceRebuild, lastCall,
                    concVars, proberVars, validateVars, normVars >>

LoadChainByID ==
    /\ bpc = "built"
    /\ \E chainId \in LookupIDs :
          lookup' = [ fn |-> "loadChainByID", id |-> chainId, name |-> << >>,
                      res |-> loadChainByID(cacheFile, chainId) ]
    /\ UNCHANGED << chains, bpc, spawned, ipc, mu, cacheData,
                    storeVars, concVars, proberVars, validateVars, normVars >>

\* Asked are the raw names of Queries and the keys of the Name Index.
LoadChainByName ==
    /\ bpc = "built"
    /\ \E name \in Queries \cup mapKeys(cacheFile.content.byName) :
          lookup' = [ fn |-> "loadChainByName", id |-> 0, name |-> name,
                      res |-> loadChainByName(cacheFile, name) ]
    /\ UNCHANGED << chains, bpc, spawned, ipc, mu, cacheData,
                    storeVars, concVars, proberVars, validateVars, normVars >>

BuildNext ==
    \/ InsertSpawn
    \/ \E i \in Inserters : InsertLock(i)
    \/ \E i \in Inserters : InsertByID(i)
    \/ \E i \in Inserters : InsertByName(i)
    \/ \E i \in Inserters : InsertUnlock(i)
    \/ BuildWait
    \/ BuildWrite
    \/ LoadChainByID
    \/ LoadChainByName

(***************************************************************************)
(* Callers sharing the artifact: goroutines of one process share its        *)
(* cacheMux, another invocation of the program is another process with a    *)
(* cacheMux of its own.  The artifact is a file of chunks, each tagged with *)
(* the caller that wrote it (0 for the artifact found at the start, -1 for  *)
(* a hole); ino tells files created one after another at the path apart.    *)
(***************************************************************************)
Callers == { 1, 2, 3 }

Procs == { 1, 2 }

\* Callers 1 and 2 are goroutines of one process, caller 3 is another process.
procOf(c) == IF c = 3 THEN 2 ELSE 1

Operations == { "FetchChainData", "FetchChainDataByName", "BuildCache", "CleanCache" }

\* The document caller c writes.
ArtifactOf(c) == << c, c >>

\* What a caller saw of the artifact: names is the read of loadNameMapping
\* (resolved when it gave a chain ID), read and content the one of
\* loadChainByID.
NoNames == [ read |-> FALSE, content |-> << >>, resolved |-> FALSE ]

NotRead == [ read |-> FALSE, content |-> << >>, names |-> NoNames ]

\* A document of full length without a hole: json Decode reads it to its end.
Complete(content) ==
    /\ Len(content) = Len(ArtifactOf(0))
    /\ \A k \in 1..Len(content) : content[k] # -1

NoDescriptor == [ ino |-> 0, off |-> 0 ]

ConcIdle ==
    /\ cop = << >>
    /\ cpc = << >>
    /\ cacheMux = << >>
    /\ disk = [ exists |-> FALSE, ino |-> 0, content |-> << >> ]
    /\ wofs = << >>
    /\ seen = << >>

ConcInit ==
    /\ cop \in [ Callers -> Operations ]
    /\ cpc = [ c \in Callers |-> "call" ]
    /\ cacheMux = [ p \in Procs |-> 0 ]
    /\ disk \in { [ exists |-> FALSE, ino |-> 0, content |-> << >> ],
                  [ exists |-> TRUE, ino |-> 0, content |-> ArtifactOf(0) ] }
    /\ wofs = [ c \in Callers |-> NoDescriptor ]
    /\ seen = [ c \in Callers |-> NotRead ]

\* cacheMux.Lock() of ensureCacheExists, BuildCache and CleanCache
CallLock(c) ==
    /\ cpc[c] = "call"
    /\ cacheMux[procOf(c)] = 0
    /\ cacheMux' = [ cacheMux EXCEPT ![procOf(c)] = c ]
    /\ cpc' = [ cpc EXCEPT ![c] = CASE cop[c] \in Fetches -> "stat"
                                    [] cop[c] = "BuildCache" -> "fetch"
                                    [] OTHER -> "remove" ]
    /\ UNCHANGED << cop, disk, wofs, seen, storeVars, buildVars, proberVars, validateVars, normVars >>

\* ensureCacheExists, lines 587-599: fresh stands for !forceRebuild and an
\* age below CACHE_TTL.
EnsureStat(c) ==
    /\ cpc[c] = "stat"
    /\ \E fresh \in BOOLEAN :
          cpc' = [ cpc EXCEPT ![c] = IF disk.exists /\ fresh THEN "unlock" ELSE "fetch" ]
    /\ UNCHANGED << cop, cacheMux, disk, wofs, seen,
                    storeVars, buildVars, proberVars, validateVars, normVars >>

\* buildCache up to json.Marshal; when it fails, ensureCacheExists falls back
\* on an artifact that exists and BuildCache returns the error.
BuildFetch(c) ==
    /\ cpc[c] = "fetch"
    /\ \E ok \in BOOLEAN :
          cpc' = [ cpc EXCEPT ![c] =
                     IF ok THEN "openw"
                     ELSE IF cop[c] \in Fetches /\ disk.exists THEN "unlock"
                     ELSE "unlockErr" ]
    /\ UNCHANGED << cop, cacheMux, disk, wofs, seen,
                    storeVars, buildVars, proberVars, validateVars, normVars >>

\* os.WriteFile: OpenFile(name, O_WRONLY|O_CREATE|O_TRUNC, perm)
WriteOpen(c) ==
    /\ cpc[c] = "openw"
    /\ disk' = [ exists |-> TRUE,
                 ino |-> IF disk.exists THEN disk.ino ELSE disk.ino + 1,
                 content |-> << >> ]
    /\ wofs' = [ wofs EXCEPT ![c] = [ ino |-> disk'.ino, off |-> 0 ] ]
    /\ cpc' = [ cpc EXCEPT ![c] = "write" ]
    /\ UNCHANGED << cop, cacheMux, seen, storeVars, buildVars, proberVars, validateVars, normVars >>

\* content with chunk v written at offset off
writeAt(content, off, v) ==
    IF off < Len(content) THEN [ content EXCEPT ![off + 1] = v ]
    ELSE content \o [ k \in 1..(off - Len(content)) |-> -1 ] \o << v >>

\* os.WriteFile: f.Write(data), chunk after chunk.  A file that was removed
\* in the meantime is written to all the same, out of every reader's sight.
WriteChunk(c) ==
    /\ cpc[c] = "write"
    /\ disk' = IF disk.exists /\ disk.ino = wofs[c].ino
               THEN [ disk EXCEPT !.content =
                        writeAt(@, wofs[c].off, ArtifactOf(c)[wofs[c].off + 1]) ]
               ELSE disk
    /\ wofs' = [ wofs EXCEPT ![c].off = @ + 1 ]
    /\ cpc' = [ cpc EXCEPT ![c] = IF wofs[c].off + 1 = Len(ArtifactOf(c))
                                  THEN "unlock" ELSE "write" ]
    /\ UNCHANGED << cop, cacheMux, seen, storeVars, buildVars, proberVars, validateVars, normVars >>

\* CleanCache: os.Remove(cacheFile)
Remove(c) ==
    /\ cpc[c] = "remove"
    /\ disk' = [ disk EXCEPT !.exists = FALSE, !.content = << >> ]
    /\ cpc' = [ cpc EXCEPT ![c] = "unlock" ]
    /\ UNCHANGED << cop, cacheMux, wofs, seen, storeVars, buildVars, proberVars, validateVars, normVars >>

\* the deferred cacheMux.Unlock(); FetchChainData and FetchChainDataByName go
\* on to the lookup when ensureCacheExists returned nil
CallUnlock(c) ==
    /\ cpc[c] \in { "unlock", "unlockErr" }
    /\ cacheMux' = [ cacheMux EXCEPT ![procOf(c)] = 0 ]
    /\ cpc' = [ cpc EXCEPT ![c] =
                 IF cpc[c] = "unlock" /\ cop[c] = "FetchChainData" THEN "lookup"
                 ELSE IF cpc[c] = "unlock" /\ cop[c] = "FetchChainDataByName" THEN "names"
                 ELSE "returned" ]
    /\ UNCHANGED << cop, disk, wofs, seen, storeVars, buildVars, proberVars, validateVars, normVars >>

\* loadNameMapping and findChainIDByName, without cacheMux: os.Open, Decode
\* of the document, and the name resolves to a chain ID or does not.
LoadNameMapping(c) ==
    /\ cpc[c] = "names"
    /\ \E found \in BOOLEAN :
          LET resolved == disk.exists /\ Complete(disk.content) /\ found
          IN  /\ seen' = [ seen EXCEPT ![c].names =
                             IF disk.exists
                             THEN [ read |-> TRUE, content |-> disk.content,
                                    resolved |-> resolved ]
                             ELSE NoNames ]
              /\ cpc' = [ cpc EXCEPT ![c] = IF resolved THEN "lookup" ELSE "returned" ]
    /\ UNCHANGED << cop, cacheMux, disk, wofs, storeVars, buildVars, proberVars, validateVars, normVars >>

\* loadChainByID: os.Open and the reads of the decoder, without cacheMux
LookupRead(c) ==
    /\ cpc[c] = "lookup"
    /\ seen' = [ seen EXCEPT ![c].read = disk.exists,
                             ![c].content = IF disk.exists THEN disk.content ELSE << >> ]
    /\ cpc' = [ cpc EXCEPT ![c] = "returned" ]
    /\ UNCHANGED << cop, cacheMux, disk, wofs, storeVars, buildVars, proberVars, validateVars, normVars >>

ConcNext ==
    \/ \E c \in Callers : CallLock(c)
    \/ \E c \in Callers : EnsureStat(c)
    \/ \E c \in Callers : BuildFetch(c)
    \/ \E c \in Callers : WriteOpen(c)
    \/ \E c \in Callers : WriteChunk(c)
    \/ \E c \in Callers : Remove(c)
    \/ \E c \in Callers : CallUnlock(c)
    \/ \E c \in Callers : LoadNameMapping(c)
    \/ \E c \in Callers : LookupRead(c)

(***************************************************************************)
(* One alias, filed by the indexer and asked for in another spelling.  The  *)
(* feed has one record, of chain 8, with the alias as its name.             *)
(***************************************************************************)
NameAlphabet == { " ", "\t", "S", "s", "-" }

RawAliases == SeqsUpTo(NameAlphabet, MaxNameLen) \ { << >> }

upperOf(c) == IF c = "s" THEN "S" ELSE c

ToUpper(s) == [ k \in 1..Len(s) |-> upperOf(s[k]) ]

\* The positions of the hyphens of s.
hyphensOf(s) == { k \in 1..Len(s) : s[k] = "-" }

\* s with a space for the hyphen at each position of H.
spacesFor(s, H) == [ k \in 1..Len(s) |-> IF k \in H THEN " " ELSE s[k] ]

\* s in another letter case.
Cased(s) == { s, ToUpper(s), ToLower(s) }

\* Whitespace put before or after a name.
Paddings == { << >>, << " " >>, << "\t" >> }

\* The artifact buildCache writes for the feed of the one record.
artifactOf(alias) ==
    FileOf(Marshal(insert(EmptyCacheData, ChainData(alias, NoName, NoName, 8))))

NoNorm ==
    [ fn |-> "none", text |-> << >>, replaced |-> {}, once |-> << >>, twice |-> << >>,
      keys |-> {}, res |-> Failed("nil") ]

NormIdle ==
    /\ nAlias = << >>
    /\ nOut = NoNorm

NormInit ==
    /\ nAlias \in RawAliases
    /\ nOut = NoNorm

\* normalizeChainName applied to the alias, and to its own result.
Normalize ==
    /\ nOut.fn = "none"
    /\ nOut' = [ NoNorm EXCEPT !.fn = "normalizeChainName", !.text = nAlias,
                               !.once = normalizeChainName(nAlias),
                               !.twice = normalizeChainName(normalizeChainName(nAlias)) ]
    /\ UNCHANGED << nAlias, storeVars, buildVars, concVars, proberVars, validateVars >>

\* The alias is indexed; loadChainByName is asked for it in another letter
\* case, with whitespace around it and with spaces for some of its hyphens.
QueryAlias ==
    /\ nOut.fn = "none"
    /\ \E H \in SUBSET hyphensOf(nAlias), left \in Paddings, right \in Paddings :
         \E cased \in Cased(spacesFor(nAlias, H)) :
            LET text == left \o cased \o right
                file == artifactOf(nAlias)
            IN  nOut' = [ fn |-> "loadChainByName", text |-> text, replaced |-> H,
                          once |-> normalizeChainName(text),
                          twice |-> normalizeChainName(normalizeChainName(text)),
                          keys |-> mapKeys(file.content.byName),
                          res |-> loadChainByName(file, text) ]
    /\ UNCHANGED << nAlias, storeVars, buildVars, concVars, proberVars, validateVars >>

NormNext ==
    \/ Normalize
    \/ QueryAlias

(***************************************************************************)
(* The artifact is a file: loadChainByID reads whatever JSON document is at *)
(* its path.  The byId sections here have keys that are no decimal          *)
(* numerals, and two keys, "8" and "08", that parse to the same chain ID.   *)
(***************************************************************************)
Key_8 == << "8" >>
Key_08 == << "0", "8" >>
Key_10 == << "1", "0" >>
Key_x == << "x" >>
Key_plus8 == << "+", "8" >>

ScanEntries ==
    { << Key_8, encodeRecord(ChainData(Name_S, NoName, NoName, 8)) >>,
      << Key_08, encodeRecord(ChainData(Name_SMainnet, NoName, NoName, 8)) >>,
      << Key_10, encodeRecord(ChainData(Name_EthereumS, NoName, NoName, 10)) >>,
      << Key_x, encodeRecord(ChainData(Name_X, NoName, NoName, 8)) >>,
      << Key_plus8, encodeRecord(ChainData(Name_Q, NoName, NoName, 8)) >> }

ScanFiles ==
    { FileOf([ cut |-> "none", byId |-> entries, byName |-> {} ]) :
         entries \in SeqsUpTo(ScanEntries, MaxEntries) }

ScanInit ==
    /\ cacheFile \in ScanFiles
    /\ forceRebuild = FALSE
    /\ lastCall = NoCallYet
    /\ chains = << >>
    /\ bpc = "built"
    /\ spawned = 0
    /\ ipc = << >>
    /\ mu = 0
    /\ cacheData = EmptyCacheData
    /\ lookup = NoLookup

ScanNext == LoadChainByID

(***************************************************************************)
(* Specifications                                                           *)
(***************************************************************************)
ChainIdle == StoreInit /\ BuildIdle /\ ConcIdle /\ NormIdle

Init == ProberInit /\ ValidateIdle /\ ChainIdle

Next == ProberNext

Spec == Init /\ [][Next]_vars

\* The Go scheduler runs every runnable goroutine, every validation returns
\* (each has its own timeout) and the timer fires.
Fairness ==
    /\ WF_vars(TimerFire)
    /\ WF_vars(Launch)
    /\ WF_vars(SpawnDone)
    /\ \A i \in 1..MaxURLs : WF_vars(i \in Workers /\ WorkerValidate(i))
    /\ \A i \in 1..MaxURLs : WF_vars(i \in Workers /\ (WorkerSend(i) \/ WorkerTimeout(i)))
    /\ \A i \in 1..MaxURLs : WF_vars(i \in Workers /\ WorkerDone(i))
    /\ WF_vars(DoneWait)
    /\ WF_vars(DoneClose)
    /\ WF_vars(CollectResult \/ CollectTimeout \/ CollectDone)
    /\ WF_vars(DrainResult \/ DrainDefault)

FairSpec == Spec /\ Fairness

VInit == ProberIdle /\ ValidateInit /\ ChainIdle

VNext == Probe

ValidateSpec == VInit /\ [][VNext]_vars

\* The cache of one process, its calls one after another.
StoreSpecInit == ProberIdle /\ ValidateIdle /\ StoreInit /\ BuildIdle /\ ConcIdle /\ NormIdle

StoreSpec == StoreSpecInit /\ [][StoreNext]_vars

\* One run of buildCache and lookups on what it wrote.
BuildSpecInit == ProberIdle /\ ValidateIdle /\ StoreInit /\ BuildInit /\ ConcIdle /\ NormIdle

BuildSpec == BuildSpecInit /\ [][BuildNext]_vars

\* Callers of two processes on one artifact.
ConcSpecInit == ProberIdle /\ ValidateIdle /\ StoreInit /\ BuildIdle /\ ConcInit /\ NormIdle

ConcSpec == ConcSpecInit /\ [][ConcNext]_vars

\* loadChainByID on an artifact that buildCache did not write.
ScanSpecInit == ProberIdle /\ ValidateIdle /\ ScanInit /\ ConcIdle /\ NormIdle

ScanSpec == ScanSpecInit /\ [][ScanNext]_vars

\* One alias through the indexer and the resolver.
NormSpecInit == ProberIdle /\ ValidateIdle /\ StoreInit /\ BuildIdle /\ ConcIdle /\ NormInit

NormSpec == NormSpecInit /\ [][NormNext]_vars

(***************************************************************************)
(* Helpers of the properties                                                *)
(***************************************************************************)
Count(s, u) == Cardinality({ k \in 1..Len(s) : s[k] = u })

Range(s) == { s[k] : k \in 1..Len(s) }

SameBag(s, t) ==
    /\ Len(s) = Len(t)
    /\ \A u \in Range(s) \cup Range(t) : Count(s, u) = Count(t, u)

\* The workers whose validation has returned true.
Validated == { i \in Workers : verdict[i] }

AllFinished == \A i \in Workers : wpc[i] = "finished"

\* workingRPCs holds exactly the URLs of the workers whose validation succeeded.
ExactlyTheWorking(s) ==
    /\ Len(s) = Cardinality(Validated)
    /\ \A u \in BatchURLs : Count(s, u) = Cardinality({ i \in Validated : rpcURLs[i] = u })

\* No validation has succeeded after the deadline fired.
NoSuccessAfterDeadline == timerFired => fireSnap.validated = Validated

\* Every success had been received by the collector when the deadline fired.
AllAcceptedAtDeadline == timerFired => fireSnap.accepted = Cardinality(fireSnap.validated)

(***************************************************************************)
(* C1 (as claimed): once the deadline timer has fired, no URL is added to   *)
(* the working set: the set has the size it had when the timer fired.       *)
(***************************************************************************)
C1_NoResultAcceptedAfterDeadline ==
    timerFired => Len(workingRPCs) = fireSnap.accepted

(***************************************************************************)
(* C2 (as claimed): the deadline signal is always observed by the           *)
(* collector: while the collector has not yet chosen a branch that ends the *)
(* collection, a fired deadline is there for it to receive, so it can       *)
(* return without waiting for the validations in flight.                    *)
(***************************************************************************)
C2_DeadlineSignalReachesCollector ==
    (timerFired /\ pcMain \in { "launch", "collect" }) => timeoutCh # << >>

(***************************************************************************)
(* C3 (as claimed): when no validation succeeds after the deadline fired,   *)
(* FindAllWorkingRPCs returns exactly the endpoints whose validation        *)
(* succeeded and FindRandomWorkingRPC returns one of them.                  *)
(***************************************************************************)
C3_ExactlyWorkingReturned ==
    (api.fn # "none" /\ NoSuccessAfterDeadline) =>
        /\ ExactlyTheWorking(workingRPCs)
        /\ api.fn = "FindAllWorkingRPCs" => SameBag(api.result, workingRPCs)
        /\ (api.fn = "FindRandomWorkingRPC" /\ Validated # {}) =>
               /\ api.err = "nil"
               /\ \E i \in Validated : api.result = << rpcURLs[i] >>

(***************************************************************************)
(* C3 (amended): the same, provided also that every success had been        *)
(* received by the collector when the deadline fired (or the deadline had   *)
(* not fired when the collection ended).                                    *)
(***************************************************************************)
C3_ExactlyWorkingWhenAcceptedInTime ==
    (api.fn # "none" /\ NoSuccessAfterDeadline /\ AllAcceptedAtDeadline) =>
        /\ ExactlyTheWorking(workingRPCs)
        /\ api.fn = "FindAllWorkingRPCs" => SameBag(api.result, workingRPCs)
        /\ (api.fn = "FindRandomWorkingRPC" /\ Validated # {}) =>
               /\ api.err = "nil"
               /\ \E i \in Validated : api.result = << rpcURLs[i] >>

\* One endpoint answered and was collected in time, the other is still in
\* flight when the deadline ends the collection.
C3_Witness ==
    /\ api.fn = "FindAllWorkingRPCs"
    /\ returnedVia = "timeout"
    /\ NoSuccessAfterDeadline /\ AllAcceptedAtDeadline
    /\ Len(api.result) = 1
    /\ \E i \in Workers : wpc[i] = "validate"

(***************************************************************************)
(* C4: findWorkingRPCsConcurrently eventually returns; it returns only      *)
(* after the deadline fired or every launched validation completed; on the  *)
(* completion path nothing pushed is left in the result channel.            *)
(***************************************************************************)
C4_ReturnsAndDrains ==
    /\ <>(pcMain = "returned")
    /\ [](pcMain = "returned" => (timerFired \/ AllFinished))
    /\ [](returnedVia = "done" => (AllFinished /\ resultCh = << >>))

\* Both endpoints pushed, the collector left through done and the drain loop
\* picked up what was buffered, the deadline not having fired.
C4_Witness ==
    /\ returnedVia = "done"
    /\ ~timerFired
    /\ Len(workingRPCs) = 2

(***************************************************************************)
(* C5: every URL of the working set is a candidate whose validation         *)
(* returned true, and occurs there no more often than among the candidates  *)
(* that validated.                                                          *)
(***************************************************************************)
C5_OnlyValidatedCandidates ==
    \A u \in Range(workingRPCs) :
        /\ u \in Range(rpcURLs)
        /\ Count(workingRPCs, u) <= Cardinality({ i \in Validated : rpcURLs[i] = u })
        /\ Count(workingRPCs, u) <= Count(rpcURLs, u)

\* The same URL listed twice, one validation succeeding and one failing: the
\* URL is in the result once.
C5_Witness ==
    /\ pcMain = "returned"
    /\ Len(rpcURLs) = 2 /\ rpcURLs[1] = rpcURLs[2]
    /\ verdict[1] /\ ~verdict[2] /\ wpc[2] = "finished"
    /\ workingRPCs = << rpcURLs[1] >>

(***************************************************************************)
(* C6: the exported calls fail with ErrNoRPCsFound exactly when the working *)
(* set is empty, as it is when every endpoint fails; otherwise              *)
(* FindAllWorkingRPCs returns the whole set, which the shuffle of the `all` *)
(* command only permutes.                                                   *)
(***************************************************************************)
C6_ErrNoRPCsFoundIffEmpty ==
    /\ api.fn # "none" => (api.err = "ErrNoRPCsFound" <=> workingRPCs = << >>)
    /\ (api.fn # "none" /\ behaviours = FailingBatchResponses) => api.err = "ErrNoRPCsFound"
    /\ (api.fn = "FindAllWorkingRPCs" /\ api.err = "nil") => api.result = workingRPCs
    /\ output.printed => SameBag(output.lines, workingRPCs)

\* Two endpoints found working and printed in the other order.
C6_Witness ==
    /\ api.fn = "FindAllWorkingRPCs"
    /\ output.printed
    /\ Len(workingRPCs) = 2
    /\ workingRPCs[1] # workingRPCs[2]
    /\ output.lines # workingRPCs

(***************************************************************************)
(* C7: FindRandomWorkingRPC returns only after the collection has ended     *)
(* (deadline fired or all validations completed), and the URL it returns is *)
(* a member of the collected working set.                                   *)
(***************************************************************************)
C7_RandomAfterFullCollection ==
    api.fn = "FindRandomWorkingRPC" =>
        /\ timerFired \/ AllFinished
        /\ api.err = "nil" => (Len(api.result) = 1 /\ api.result[1] \in Range(workingRPCs))

\* Two successes were collected before the random pick, which took the second.
C7_Witness ==
    /\ api.fn = "FindRandomWorkingRPC"
    /\ Len(workingRPCs) = 2
    /\ workingRPCs[1] # workingRPCs[2]
    /\ api.result = << workingRPCs[2] >>

(***************************************************************************)
(* C8 (as claimed): over both transports an endpoint is working iff the     *)
(* transport connects, the body is well formed, there is no error field,    *)
(* the result is a string and it parses to expectedChainID; the same        *)
(* response gets the same verdict over HTTP and over WebSocket.             *)
(***************************************************************************)
transportConnects(rpcURL, resp) ==
    IF transportOf(rpcURL) = "websocket" THEN dialContext(rpcURL, resp)
    ELSE clientDo(rpcURL, resp)

answersExpected(resp, expected) ==
    /\ resp.decodes
    /\ ~resp.hasError
    /\ resp.result.kind = "string"
    /\ ParseUint(resp.result.str) # ParseErr
    /\ ParseUint(resp.result.str) = expected

C8_SameConditionsBothTransports ==
    vOut.made =>
        /\ vOut.working <=>
             (transportConnects(vUrl, vResp) /\ answersExpected(vResp, vExpected))
        /\ vOut.overHTTP = vOut.overWS

(***************************************************************************)
(* C8 (amended): the same, with one more condition over HTTP only: the      *)
(* response status is 200.  The same response gets the same verdict over    *)
(* both transports when its HTTP status is 200.                             *)
(***************************************************************************)
C8_SameConditionsPlusHTTPStatus ==
    vOut.made =>
        /\ vOut.working <=>
             /\ transportConnects(vUrl, vResp)
             /\ vOut.transport = "http" => vResp.status = StatusOK
             /\ answersExpected(vResp, vExpected)
        /\ vResp.status = StatusOK => vOut.overHTTP = vOut.overWS

\* A well-formed matching answer with status 500: not working over HTTP,
\* working over WebSocket.
C8_Witness ==
    /\ vOut.made
    /\ vOut.transport = "http"
    /\ transportConnects(vUrl, vResp) /\ answersExpected(vResp, vExpected)
    /\ vResp.status # StatusOK
    /\ ~vOut.working /\ ~vOut.overHTTP /\ vOut.overWS

(***************************************************************************)
(* C9 (as claimed): a URL is validated over WebSocket exactly when its      *)
(* scheme is ws or wss, the scheme test of the prober agreeing with the     *)
(* one of the CLI filter.                                                   *)
(***************************************************************************)
C9_WebSocketSchemesUseWebSocket ==
    vOut.made =>
        /\ mainIsWebSocketURL(vUrl) <=> vOut.transport = "websocket"
        /\ mainIsWebSocketURL(vUrl) <=> isWebSocketURL(vUrl)

(***************************************************************************)
(* C10: a failing validation is only a verdict of false: the prober returns *)
(* no error but ErrNoRPCsFound, a batch whose endpoints all fail ends with  *)
(* every verdict false and, once returned, with that error, and a worker    *)
(* whose validation failed never reaches the send on the result channel.    *)
(***************************************************************************)
C10_FailuresAreVerdictsOnly ==
    /\ api.err \in { "nil", "ErrNoRPCsFound" }
    /\ behaviours = FailingBatchResponses =>
          /\ Validated = {}
          /\ workingRPCs = << >>
          /\ api.fn # "none" => api.err = "ErrNoRPCsFound"
    /\ \A i \in Workers : (wpc[i] = "select" => verdict[i])

\* One validation failed and its worker finished; the other succeeded and the
\* call returned it without error.
C10_Witness ==
    /\ behaviours = BatchResponses
    /\ Len(rpcURLs) = 2
    /\ ~verdict[1] /\ wpc[1] = "finished"
    /\ verdict[2]
    /\ api.fn # "none" /\ api.err = "nil"

(***************************************************************************)
(* Helpers of the properties of the cache                                   *)
(***************************************************************************)
\* The last call went through ensureCacheExists.
EnsureCalled == lastCall.op \in { "FetchChainData", "FetchChainDataByName" }

\* The chain IDs the byId section of a content lists.
idsOf(content) == { ParseUint10(content.byId[k][1]) : k \in 1..Len(content.byId) }

\* The record a content stores for a chain ID.
recordOf(content, id) ==
    decodeRecord(
        content.byId[CHOOSE k \in 1..Len(content.byId) :
                         ParseUint10(content.byId[k][1]) = id][2])

\* A whole document was on disk when the last call began.
PriorValid == lastCall.prior.exists /\ lastCall.prior.content.cut = "none"

\* The keys under which the indexer files a record.
aliasKeys(rec) ==
    { normalizeChainName(a) : a \in { rec.Name, rec.ShortName, rec.ChainSlug } \ { << >> } }

(***************************************************************************)
(* C11: ensureCacheExists takes the artifact for usable exactly when it     *)
(* exists, forceRebuild is false and its age is below 30 days; it attempts  *)
(* no rebuild when the artifact is usable and exactly one otherwise.        *)
(***************************************************************************)
C11_UsableIffFreshAndUnforced ==
    EnsureCalled =>
        /\ lastCall.usable <=>
             (lastCall.prior.exists /\ ~lastCall.force /\ lastCall.prior.age < 30)
        /\ lastCall.rebuilds = IF lastCall.usable THEN 0 ELSE 1

\* An artifact of 31 days, not forced: one rebuild.
C11_Witness ==
    /\ EnsureCalled
    /\ lastCall.prior.exists /\ lastCall.prior.age = 31 /\ ~lastCall.force
    /\ lastCall.rebuilds = 1

(***************************************************************************)
(* C12 (as claimed): when a rebuild fails, at whichever step, while a whole *)
(* prior artifact exists, the content of the artifact is left as it was,    *)
(* ensureCacheExists returns nil and the lookup that follows succeeds with  *)
(* the prior data for a chain the prior artifact holds.                     *)
(***************************************************************************)
C12_FailedRebuildKeepsPrior ==
    (EnsureCalled /\ lastCall.rebuilds = 1 /\ lastCall.buildErr # "nil" /\ PriorValid) =>
        /\ cacheFile.exists /\ cacheFile.content = lastCall.prior.content
        /\ lastCall.ensureErr = "nil"
        /\ (lastCall.op = "FetchChainData" /\ lastCall.id \in idsOf(lastCall.prior.content)) =>
              /\ lastCall.res.err = "nil"
              /\ lastCall.res.rec = recordOf(lastCall.prior.content, lastCall.id)
        /\ ( /\ lastCall.op = "FetchChainDataByName"
             /\ normalizeChainName(lastCall.name) \in mapKeys(lastCall.prior.content.byName) ) =>
              lastCall.res.err = "nil"

(***************************************************************************)
(* C13: ensureCacheExists returns an error exactly when it attempted a      *)
(* rebuild, the rebuild failed and no artifact is on disk afterwards; the   *)
(* error is the one of the rebuild, and FetchChainData and                  *)
(* FetchChainDataByName return it without a lookup.                         *)
(***************************************************************************)
C13_ErrorIffRebuildFailedAndNoArtifact ==
    EnsureCalled =>
        /\ lastCall.ensureErr # "nil" <=>
             (lastCall.rebuilds = 1 /\ lastCall.buildErr # "nil" /\ ~cacheFile.exists)
        /\ lastCall.ensureErr # "nil" =>
              /\ lastCall.ensureErr = lastCall.buildErr
              /\ lastCall.res = Failed(lastCall.buildErr)
              /\ ~lastCall.looked
        /\ lastCall.ensureErr = "nil" => lastCall.looked

\* No artifact, the feed answers with another status than 200: the call
\* returns that error.
C13_Witness ==
    /\ lastCall.op = "FetchChainDataByName"
    /\ ~lastCall.prior.exists /\ ~cacheFile.exists
    /\ lastCall.buildErr = "status"
    /\ lastCall.res.err = "status"
    /\ ~lastCall.looked

(***************************************************************************)
(* C17: after a successful rebuild the artifact holds only what the newly   *)
(* fetched feed yields: every entry of its ID index is a record of the feed *)
(* under that record's chain ID, every entry of its name index is an alias  *)
(* of a record of the feed with that record's chain ID; nothing of the      *)
(* prior artifact is left that the feed does not yield again.               *)
(***************************************************************************)
C17_RebuildReplacesArtifact ==
    (lastCall.rebuilds = 1 /\ lastCall.buildErr = "nil") =>
        /\ cacheFile.exists /\ cacheFile.content.cut = "none"
        /\ \A k \in 1..Len(cacheFile.content.byId) :
              \E j \in 1..Len(lastCall.feed) :
                  /\ ParseUint10(cacheFile.content.byId[k][1]) = lastCall.feed[j].ChainID
                  /\ decodeRecord(cacheFile.content.byId[k][2]) = lastCall.feed[j]
        /\ \A e \in cacheFile.content.byName :
              \E j \in 1..Len(lastCall.feed) :
                  /\ e[1] \in aliasKeys(lastCall.feed[j])
                  /\ e[2] = lastCall.feed[j].ChainID

\* A whole artifact with chain 8 and alias "s" is replaced by the artifact of
\* a feed with neither.
C17_Witness ==
    /\ lastCall.rebuilds = 1 /\ lastCall.buildErr = "nil"
    /\ PriorValid
    /\ 8 \in idsOf(lastCall.prior.content)
    /\ 8 \notin idsOf(cacheFile.content)
    /\ << "s" >> \in mapKeys(lastCall.prior.content.byName)
    /\ << "s" >> \notin mapKeys(cacheFile.content.byName)

(***************************************************************************)
(* Helpers of the properties of the shared artifact                         *)
(***************************************************************************)
\* A whole document: the one found at the start or one a caller wrote.
IsWhole(content) == \E w \in Callers \cup { 0 } : content = ArtifactOf(w)

\* The callers inside buildCache or os.Remove.
Mutating == { c \in DOMAIN cpc : cpc[c] \in { "fetch", "openw", "write", "remove" } }

\* The callers inside os.WriteFile.
Writing == { c \in DOMAIN cpc : cpc[c] = "write" }

(***************************************************************************)
(* C14 (as claimed): a lookup running while buildCache replaces the         *)
(* artifact reads either the whole previous document or the whole new one,  *)
(* never an empty, truncated or partly written file.                        *)
(***************************************************************************)
C14_ReadersSeeWholeArtifact ==
    \A c \in DOMAIN seen : seen[c].read => IsWhole(seen[c].content)

(***************************************************************************)
(* C15 (as claimed): at most one mutating operation on the artifact (a      *)
(* rebuild or a clean) is in progress at any time, callers of concurrent    *)
(* invocations included; no two rebuilds write the artifact at once.        *)
(***************************************************************************)
C15_OneMutatorAtATime ==
    /\ Cardinality(Mutating) <= 1
    /\ Cardinality(Writing) <= 1

(***************************************************************************)
(* Helpers of the properties of the index and of the lookups                *)
(***************************************************************************)
\* The Name Index of the artifact on disk.
NameIndex == cacheFile.content.byName

\* The keys of a name mapping that contain s.
KeysWith(nameMapping, s) == { key \in mapKeys(nameMapping) : Contains(key, s) }

\* Exactly one key of the name mapping contains s.
SingleKeyWith(nameMapping, s) == Cardinality(KeysWith(nameMapping, s)) = 1

\* The chain ID of that key.
IDOfKeyWith(nameMapping, s) ==
    mapGet(nameMapping, CHOOSE key \in KeysWith(nameMapping, s) : TRUE)

(***************************************************************************)
(* C16: in the artifact buildCache writes, every chain ID that is a value   *)
(* of the name index is a key of the ID index, whatever the feed and the    *)
(* order in which the insert goroutines run; the same holds of the maps in  *)
(* memory whenever no goroutine holds the insertion lock.                   *)
(***************************************************************************)
C16_NameIndexIDsInIDIndex ==
    /\ cacheFile.exists => \A e \in NameIndex : e[2] \in idsOf(cacheFile.content)
    /\ mu = 0 => \A e \in cacheData.ByName : e[2] \in mapKeys(cacheData.ByID)

\* Two records with the same name and different chain IDs, the goroutine of
\* the second having inserted first: the alias maps to the first one's ID.
C16_Witness ==
    /\ bpc = "built"
    /\ Len(chains) = 2
    /\ chains[1].Name = chains[2].Name /\ chains[1].Name # << >>
    /\ chains[1].ChainID # chains[2].ChainID
    /\ mapGet(NameIndex, normalizeChainName(chains[1].Name)) = chains[1].ChainID
    /\ Len(cacheFile.content.byId) = 2

(***************************************************************************)
(* C18: for every chain ID that is a key of the ID index of a built         *)
(* artifact, loadChainByID succeeds and returns a record whose ChainID is   *)
(* that ID.                                                                 *)
(***************************************************************************)
C18_IDLookupReturnsQueriedRecord ==
    (lookup.fn = "loadChainByID" /\ lookup.id \in idsOf(cacheFile.content)) =>
        /\ lookup.res.err = "nil"
        /\ lookup.res.rec.ChainID = lookup.id

\* The ID asked for is the second key of the section, after "10".
C18_Witness ==
    /\ lookup.fn = "loadChainByID"
    /\ Len(cacheFile.content.byId) = 2
    /\ cacheFile.content.byId[1][1] = << "1", "0" >>
    /\ cacheFile.content.byId[2][1] = << "8" >>
    /\ lookup.id = 8
    /\ lookup.res.err = "nil"

(***************************************************************************)
(* C19: for every key of the name index of a built artifact, loadChainByName *)
(* of that key succeeds and returns the record loadChainByID returns for    *)
(* the chain ID the name index stores under the key.                        *)
(***************************************************************************)
C19_NameLookupAgreesWithIDLookup ==
    (lookup.fn = "loadChainByName" /\ lookup.name \in mapKeys(NameIndex)) =>
        /\ lookup.res.err = "nil"
        /\ loadChainByID(cacheFile, mapGet(NameIndex, lookup.name)).err = "nil"
        /\ lookup.res.rec = loadChainByID(cacheFile, mapGet(NameIndex, lookup.name)).rec
        /\ lookup.res.rec.ChainID = mapGet(NameIndex, lookup.name)

\* The key "s-mainnet" of an index of two chains resolves to chain 10.
C19_Witness ==
    /\ lookup.fn = "loadChainByName"
    /\ lookup.name = << "s" >> \o Str_mainnet
    /\ lookup.name \in mapKeys(NameIndex)
    /\ Len(cacheFile.content.byId) = 2
    /\ lookup.res.err = "nil"
    /\ lookup.res.rec.ChainID = 10

(***************************************************************************)
(* C20: name resolution tries the name itself, then "ethereum-"+name, then  *)
(* name+"-mainnet", then the name as a substring, and stops at the first    *)
(* that yields a single match: a query that is a key resolves to that key's *)
(* ID even when keys with the "ethereum-" or "-mainnet" form exist, and a   *)
(* later tier decides only when every earlier one yielded no single match.  *)
(***************************************************************************)
C20_TiersInOrder ==
    lookup.fn = "loadChainByName" =>
        LET q == normalizeChainName(lookup.name)
            isKey == q \in mapKeys(NameIndex)
            single2 == SingleKeyWith(NameIndex, Str_ethereum \o q)
            single3 == SingleKeyWith(NameIndex, q \o Str_mainnet)
            single4 == SingleKeyWith(NameIndex, q)
        IN  /\ isKey => lookup.res.id = mapGet(NameIndex, q)
            /\ (~isKey /\ single2) =>
                  lookup.res.id = IDOfKeyWith(NameIndex, Str_ethereum \o q)
            /\ (~isKey /\ ~single2 /\ single3) =>
                  lookup.res.id = IDOfKeyWith(NameIndex, q \o Str_mainnet)
            /\ (~isKey /\ ~single2 /\ ~single3 /\ single4) =>
                  lookup.res.id = IDOfKeyWith(NameIndex, q)
            /\ (~isKey /\ ~single2 /\ ~single3 /\ ~single4) => lookup.res.err # "nil"
            /\ (isKey \/ single2 \/ single3 \/ single4) =>
                  lookup.res.err = loadChainByID(cacheFile, lookup.res.id).err

\* " S " is asked while both "s" and "ethereum-s" are keys, of different
\* chains: the ID of "s" is returned.
C20_Witness ==
    /\ lookup.fn = "loadChainByName"
    /\ lookup.name = << " ", "S", " " >>
    /\ << "s" >> \in mapKeys(NameIndex)
    /\ (Str_ethereum \o << "s" >>) \in mapKeys(NameIndex)
    /\ mapGet(NameIndex, << "s" >>) # mapGet(NameIndex, Str_ethereum \o << "s" >>)
    /\ lookup.res.err = "nil"
    /\ lookup.res.id = mapGet(NameIndex, << "s" >>)


(***************************************************************************)
(* C21: the second and the third tier of name resolution are exact key      *)
(* matches.  For a query that is no key: where "ethereum-"+query is no key  *)
(* and query+"-mainnet" is one, the lookup resolves to the chain ID of      *)
(* query+"-mainnet"; where neither is a key, the lookup resolves only as    *)
(* the substring tier does on the query itself.                             *)
(***************************************************************************)
C21_PrefixedTiersExact ==
    lookup.fn = "loadChainByName" =>
        LET q == normalizeChainName(lookup.name)
            isKey == q \in mapKeys(NameIndex)
            has2 == (Str_ethereum \o q) \in mapKeys(NameIndex)
            has3 == (q \o Str_mainnet) \in mapKeys(NameIndex)
        IN  /\ (~isKey /\ ~has2 /\ has3) =>
                  lookup.res.id = mapGet(NameIndex, q \o Str_mainnet)
            /\ (~isKey /\ ~has2 /\ ~has3 /\ lookup.res.err = "nil") =>
                  /\ SingleKeyWith(NameIndex, q)
                  /\ lookup.res.id = IDOfKeyWith(NameIndex, q)


(***************************************************************************)
(* C22: when name resolution reaches the substring tier and two or more     *)
(* keys of the name index contain the normalized query, the lookup fails    *)
(* with the ambiguity error, which names the query and every matching key;  *)
(* no chain ID and no record is returned.                                   *)
(***************************************************************************)
C22_AmbiguityListsEveryMatch ==
    lookup.fn = "loadChainByName" =>
        LET q == normalizeChainName(lookup.name)
            isKey == q \in mapKeys(NameIndex)
            single2 == SingleKeyWith(NameIndex, Str_ethereum \o q)
            single3 == SingleKeyWith(NameIndex, q \o Str_mainnet)
        IN  (~isKey /\ ~single2 /\ ~single3 /\ Cardinality(KeysWith(NameIndex, q)) >= 2) =>
                /\ lookup.res.err = "multiple"
                /\ lookup.res.keys = KeysWith(NameIndex, q)
                /\ lookup.res.name = q
                /\ lookup.res.id = 0
                /\ lookup.res.rec = NoRecord

\* The query is contained in keys of two different chains.
C22_Witness ==
    /\ lookup.fn = "loadChainByName"
    /\ lookup.res.err = "multiple"
    /\ \E k1, k2 \in lookup.res.keys : mapGet(NameIndex, k1) # mapGet(NameIndex, k2)


(***************************************************************************)
(* C23: a lookup miss is the one error ErrChainNotFound on both paths:      *)
(* loadChainByID of an ID that is no key of the ID index of a whole         *)
(* artifact fails with it, and so does a lookup by name whose normalized    *)
(* query is contained in no key of the name index; a query contained in     *)
(* exactly one key, with no earlier tier deciding, resolves to that key's   *)
(* chain ID.                                                                *)
(***************************************************************************)
C23_MissIsErrChainNotFound ==
    /\ (lookup.fn = "loadChainByID" /\ lookup.id \notin idsOf(cacheFile.content)) =>
          lookup.res.err = "ErrChainNotFound"
    /\ lookup.fn = "loadChainByName" =>
          LET q == normalizeChainName(lookup.name)
              isKey == q \in mapKeys(NameIndex)
              single2 == SingleKeyWith(NameIndex, Str_ethereum \o q)
              single3 == SingleKeyWith(NameIndex, q \o Str_mainnet)
          IN  /\ KeysWith(NameIndex, q) = {} => lookup.res.err = "ErrChainNotFound"
              /\ (~isKey /\ ~single2 /\ ~single3 /\ SingleKeyWith(NameIndex, q)) =>
                    lookup.res.id = IDOfKeyWith(NameIndex, q)


aliasesOf(rec) == { rec.Name, rec.ShortName, rec.ChainSlug } \ { << >> }

(***************************************************************************)
(* C25 as stated: after buildCache succeeds, for every record r of the feed *)
(* the ID index has the key r.ChainID with a record of that chain ID, and   *)
(* for every non-empty alias of r the name index has the normalized alias   *)
(* as a key, mapped to the chain ID of a feed record that has that same     *)
(* alias; no key comes from an empty alias.                                 *)
(***************************************************************************)
C25_IndexOfSameAlias ==
    bpc = "built" =>
        /\ \A i \in 1..Len(chains) :
              /\ chains[i].ChainID \in idsOf(cacheFile.content)
              /\ recordOf(cacheFile.content, chains[i].ChainID).ChainID = chains[i].ChainID
        /\ \A i \in 1..Len(chains) : \A alias \in aliasesOf(chains[i]) :
              /\ normalizeChainName(alias) \in mapKeys(NameIndex)
              /\ \E j \in 1..Len(chains) :
                    /\ alias \in aliasesOf(chains[j])
                    /\ mapGet(NameIndex, normalizeChainName(alias)) = chains[j].ChainID
        /\ \A key \in mapKeys(NameIndex) :
              \E i \in 1..Len(chains) : \E alias \in aliasesOf(chains[i]) :
                  normalizeChainName(alias) = key

(***************************************************************************)
(* C25, amended: after buildCache succeeds, for every record r of the feed  *)
(* the ID index has the key r.ChainID with a record of that chain ID, and   *)
(* for every non-empty alias of r the name index has the normalized alias   *)
(* as a key, mapped to the chain ID of a feed record one of whose non-empty *)
(* aliases has that normalized form; every key of the name index is the     *)
(* normalized form of a non-empty alias of the record it maps to.           *)
(***************************************************************************)
C25_IndexOfSameNormalForm ==
    bpc = "built" =>
        /\ \A i \in 1..Len(chains) :
              /\ chains[i].ChainID \in idsOf(cacheFile.content)
              /\ recordOf(cacheFile.content, chains[i].ChainID).ChainID = chains[i].ChainID
        /\ \A i \in 1..Len(chains) : \A alias \in aliasesOf(chains[i]) :
              /\ normalizeChainName(alias) \in mapKeys(NameIndex)
              /\ \E j \in 1..Len(chains) : \E other \in aliasesOf(chains[j]) :
                    /\ normalizeChainName(other) = normalizeChainName(alias)
                    /\ mapGet(NameIndex, normalizeChainName(alias)) = chains[j].ChainID
        /\ \A key \in mapKeys(NameIndex) :
              \E i \in 1..Len(chains) : \E alias \in aliasesOf(chains[i]) :
                  /\ normalizeChainName(alias) = key
                  /\ mapGet(NameIndex, key) = chains[i].ChainID

\* The slug "x" of chain 8 and the short name " X<tab>" of chain 10 share the
\* key "x", which maps to chain 10; the record of chain 10 has no name.
C25_Witness ==
    /\ bpc = "built"
    /\ Len(chains) = 2
    /\ chains[1].ChainSlug = Name_x /\ chains[1].ChainID = 8
    /\ chains[2].ShortName = Name_X /\ chains[2].ChainID = 10
    /\ chains[2].Name = << >>
    /\ mapGet(NameIndex, << "x" >>) = 10
    /\ idsOf(cacheFile.content) = { 8, 10 }


(***************************************************************************)
(* C26: when the feed fetch ends in a transport error or a status other     *)
(* than 200, or the body does not decode, buildCache returns an error after *)
(* exactly one http.Get, and the artifact is as it was before the call:     *)
(* neither written, nor truncated, nor removed.  BuildCache returns that    *)
(* error.                                                                   *)
(***************************************************************************)
C26_FailedFetchIsFatalAndHarmless ==
    (lastCall.rebuilds = 1 /\ lastCall.response \in { "transport", "non200", "garbled" }) =>
        /\ lastCall.buildErr # "nil"
        /\ lastCall.fetches = 1
        /\ cacheFile = lastCall.prior
        /\ lastCall.op = "BuildCache" => lastCall.res.err = lastCall.buildErr

\* BuildCache over a whole artifact gets a status other than 200.
C26_Witness ==
    /\ lastCall.op = "BuildCache"
    /\ lastCall.response = "non200"
    /\ lastCall.prior.exists
    /\ lastCall.prior.content.cut = "none"
    /\ lastCall.res.err = "status"
    /\ cacheFile = lastCall.prior


(***************************************************************************)
(* C28: CleanCache succeeds when there is no artifact and leaves none, so   *)
(* cleaning twice ends as cleaning once; whenever it succeeds there is no   *)
(* artifact afterwards, and it fails only when os.Remove left an existing   *)
(* artifact in place.  A FetchChainData or FetchChainDataByName that finds  *)
(* no artifact, as the next one after a successful CleanCache does,         *)
(* attempts one rebuild and goes on to the lookup only with an artifact.    *)
(***************************************************************************)
C28_CleanIsIdempotentAndForcesRebuild ==
    /\ [](lastCall.op = "CleanCache" =>
            /\ ~lastCall.prior.exists => (lastCall.res.err = "nil" /\ cacheFile = lastCall.prior)
            /\ lastCall.res.err = "nil" => ~cacheFile.exists
            /\ lastCall.res.err # "nil" => (lastCall.prior.exists /\ cacheFile = lastCall.prior)
            /\ lastCall.rebuilds = 0 /\ ~lastCall.looked)
    /\ []((EnsureCalled /\ ~lastCall.prior.exists) =>
            /\ ~lastCall.usable
            /\ lastCall.rebuilds = 1
            /\ lastCall.looked => cacheFile.exists)
    /\ [][(lastCall.op = "CleanCache" /\ lastCall.res.err = "nil"
              /\ lastCall'.op \in { "FetchChainData", "FetchChainDataByName" }) =>
                 (~lastCall'.prior.exists /\ lastCall'.rebuilds = 1)]_vars

\* CleanCache found no artifact and succeeded.
C28_Witness ==
    /\ lastCall.op = "CleanCache"
    /\ ~lastCall.prior.exists
    /\ lastCall.res.err = "nil"
    /\ ~cacheFile.exists


(***************************************************************************)
(* C28 as stated: CleanCache removes the artifact and succeeds whether or   *)
(* not the artifact existed.                                                *)
(***************************************************************************)
C28_CleanAlwaysSucceeds ==
    lastCall.op = "CleanCache" => (lastCall.res.err = "nil" /\ ~cacheFile.exists)


\* The workers that have left their select statement.
PastSelect == { i \in Workers : verdict[i] /\ wpc[i] \in { "exit", "finished" } }

(***************************************************************************)
(* C27: every worker of a batch eventually terminates, also after the       *)
(* collector has returned at the deadline.  The values pushed onto the      *)
(* result channel, those still buffered and those collected, are never more *)
(* than the workers that validated and left their select, so never more     *)
(* than the capacity of the channel, the number of candidate URLs; hence a  *)
(* worker at its select always finds room and is never blocked.             *)
(***************************************************************************)
C27_WorkersTerminate ==
    /\ [](Len(resultCh) + Len(workingRPCs) <= Cardinality(PastSelect))
    /\ [](Len(resultCh) + Len(workingRPCs) <= Len(rpcURLs))
    /\ [](\A i \in Workers : wpc[i] = "select" => Len(resultCh) < Len(rpcURLs))
    /\ <>[](launched = Len(rpcURLs) /\ AllFinished)

\* The collector returned at the deadline with nothing collected; both
\* workers pushed afterwards and finished, their values left in the channel.
C27_Witness ==
    /\ returnedVia = "timeout"
    /\ workingRPCs = << >>
    /\ Len(rpcURLs) = 2
    /\ Len(resultCh) = 2
    /\ AllFinished


(***************************************************************************)
(* C29 as stated: normalizeChainName is idempotent, and a lookup by name    *)
(* of an indexed alias in any letter case, with whitespace around it or     *)
(* with spaces for hyphens is normalized to the key the indexer stored for  *)
(* the alias and returns the record.                                        *)
(***************************************************************************)
C29_AnySpellingReachesKey ==
    /\ nOut.fn # "none" => nOut.twice = nOut.once
    /\ nOut.fn = "loadChainByName" =>
          /\ nOut.keys = { normalizeChainName(nAlias) }
          /\ nOut.once = normalizeChainName(nAlias)
          /\ nOut.res.err = "nil"
          /\ nOut.res.rec.Name = nAlias


\* The spaces put for hyphens leave the first and the last character that
\* is no whitespace in place.
EndsKept ==
    Len(TrimSpace(spacesFor(nAlias, nOut.replaced))) = Len(TrimSpace(nAlias))

(***************************************************************************)
(* C29, amended: normalizeChainName is idempotent, and the indexer and the  *)
(* resolver apply it alike: a lookup by name of an indexed alias in any     *)
(* letter case, with whitespace around it and with spaces for hyphens that  *)
(* do not thereby become leading or trailing whitespace, is normalized to   *)
(* the key the indexer stored for the alias and returns the record.         *)
(***************************************************************************)
C29_SpellingsReachKey ==
    /\ nOut.fn # "none" => nOut.twice = nOut.once
    /\ (nOut.fn = "loadChainByName" /\ EndsKept) =>
          /\ nOut.keys = { normalizeChainName(nAlias) }
          /\ nOut.once = normalizeChainName(nAlias)
          /\ nOut.res.err = "nil"
          /\ nOut.res.id = 8
          /\ nOut.res.rec.Name = nAlias

\* "S-s" is indexed and " S S<tab>" is asked for.
C29_Witness ==
    /\ nAlias = << "S", "-", "s" >>
    /\ nOut.fn = "loadChainByName"
    /\ nOut.text = << " ", "S", " ", "S", "\t" >>
    /\ nOut.once = << "s", "-", "s" >>
    /\ nOut.res.err = "nil"


(***************************************************************************)
(* C30: a lookup by name decodes from the artifact the name index and the   *)
(* one record it returns: no other value of the byId section is decoded     *)
(* into a chain record, and none at all when the lookup fails to resolve.   *)
(***************************************************************************)
C30_NameLookupDecodesOneRecord ==
    lookup.fn = "loadChainByName" =>
        /\ Len(lookup.res.decoded) <= 1
        /\ \A k \in 1..Len(lookup.res.decoded) :
              /\ lookup.res.err = "nil"
              /\ ParseUint10(lookup.res.decoded[k]) = lookup.res.rec.ChainID


\* The byId section of the artifact, and the positions in it of the keys
\* that parse to the chain ID asked for and of those that do not parse.
Section == cacheFile.content.byId

Matching == { k \in 1..Len(Section) : ParseUint10(Section[k][1]) = lookup.id }

Unparsable == { k \in 1..Len(Section) : ParseUint10(Section[k][1]) = ParseErr }

FirstMatching == CHOOSE k \in Matching : \A m \in Matching : k <= m

(***************************************************************************)
(* C31: loadChainByID decodes into a chain record exactly one value of the  *)
(* byId section, that of the first key that parses to the ID asked for,     *)
(* returns it, and has read no key after that one; when no key parses to    *)
(* the ID it has read every key and decoded no value into a chain record.   *)
(***************************************************************************)
C31_DecodesOnlyFirstMatch ==
    lookup.fn = "loadChainByID" =>
        IF Matching # {}
        THEN /\ lookup.res.err = "nil"
             /\ lookup.res.decoded = << Section[FirstMatching][1] >>
             /\ lookup.res.rec = decodeRecord(Section[FirstMatching][2])
             /\ lookup.res.scanned = FirstMatching
        ELSE /\ lookup.res.err # "nil"
             /\ lookup.res.decoded = << >>
             /\ lookup.res.scanned = Len(Section)

\* Chain 8 is asked for in a section with the keys "10", "8" and "08": the
\* value under "8" is returned and the entry "08" is not read.
C31_Witness ==
    /\ lookup.fn = "loadChainByID"
    /\ lookup.id = 8
    /\ keysOf(Section) = << Key_10, Key_8, Key_08 >>
    /\ lookup.res.decoded = << Key_8 >>
    /\ lookup.res.rec.Name = Name_S
    /\ lookup.res.scanned = 2

(***************************************************************************)
(* C32: an entry of the byId section whose key is no base-10 unsigned       *)
(* integer is skipped: its value is never returned, a matching entry after  *)
(* it is still found, and when no key parses to the ID asked for the lookup *)
(* fails with ErrChainNotFound whatever unparsable keys the section has.    *)
(***************************************************************************)
C32_UnparsableKeySkipped ==
    lookup.fn = "loadChainByID" =>
        /\ \A k \in Unparsable : \A d \in 1..Len(lookup.res.decoded) :
              lookup.res.decoded[d] # Section[k][1]
        /\ Matching # {} =>
              /\ lookup.res.err = "nil"
              /\ lookup.res.rec = decodeRecord(Section[FirstMatching][2])
        /\ Matching = {} => lookup.res.err = "ErrChainNotFound"

\* Chain 8 is found behind the keys "x" and "+8".
C32_Witness ==
    /\ lookup.fn = "loadChainByID"
    /\ lookup.id = 8
    /\ keysOf(Section) = << Key_x, Key_plus8, Key_8 >>
    /\ lookup.res.err = "nil"
    /\ lookup.res.rec.Name = Name_S
    /\ lookup.res.scanned = 3


\* A decimal numeral, and a hexadecimal numeral with the prefix 0x.
isDecimalNumeral(s) == s # << >> /\ \A k \in 1..Len(s) : isDigit(s[k])

isHexNumeral(s) ==
    /\ Len(s) >= 3
    /\ s[1] = "0" /\ s[2] = "x"
    /\ \A k \in 3..Len(s) : digitVal(s[k]) < 16

\* The endpoint answers: it connects, with status 200, a body that decodes
\* and no error member.
Answers(resp) == resp.connects /\ resp.status = StatusOK /\ resp.decodes /\ ~resp.hasError

(***************************************************************************)
(* C33: the result string is accepted only as a 0x-prefixed hexadecimal or  *)
(* as a decimal numeral, and read in base 16 or base 10 accordingly: an     *)
(* endpoint is reported working only when its result is such a numeral with *)
(* the value expectedChainID, and an answering endpoint whose result is a   *)
(* decimal numeral, leading zeros included, of that value is working.       *)
(***************************************************************************)
C33_HexOrDecimalOnly ==
    vOut.made =>
        LET s == vResp.result.str
        IN  /\ (vOut.overHTTP \/ vOut.overWS \/ vOut.working) =>
                  /\ vResp.result.kind = "string"
                  /\ \/ isHexNumeral(s) /\ accumulate(Tail2(s), 16, 0) = vExpected
                     \/ isDecimalNumeral(s) /\ ParseUint10(s) = vExpected
            /\ (Answers(vResp) /\ vResp.result.kind = "string"
                    /\ isDecimalNumeral(s) /\ ParseUint10(s) = vExpected) =>
                  (vOut.overHTTP /\ vOut.overWS)


(***************************************************************************)
(* C34: an ambiguous or empty outcome of the second or third tier is never  *)
(* returned.  When a lookup by name on a whole artifact fails to resolve,   *)
(* its error is the one of the substring tier: it names the normalized      *)
(* query, not the query with "ethereum-" before or "-mainnet" after it, and *)
(* an ambiguity lists the keys that contain the normalized query.           *)
(***************************************************************************)
C34_ErrorComesFromSubstringTier ==
    (lookup.fn = "loadChainByName" /\ lookup.res.err \in { "multiple", "notFoundForName" }) =>
        LET q == normalizeChainName(lookup.name)
        IN  /\ lookup.res.name = q
            /\ lookup.res.err = "multiple" =>
                  (lookup.res.keys = KeysWith(NameIndex, q) /\ Cardinality(lookup.res.keys) >= 2)
            /\ lookup.res.err = "notFoundForName" => KeysWith(NameIndex, q) = {}
            /\ lookup.res = afterDecoding(lookup.res.decoded,
                                          findChainIdByPartialMatch(NameIndex, q))

\* Two keys contain "ethereum-s": the second tier is ambiguous, and the
\* error returned names "s".
C34_Witness ==
    /\ lookup.fn = "loadChainByName"
    /\ lookup.name = << "s" >>
    /\ Cardinality(KeysWith(NameIndex, Str_ethereum \o << "s" >>)) = 2
    /\ lookup.res.err = "multiple"
    /\ lookup.res.name = << "s" >>


\* The chain IDs that the keys containing s map to.
IDsOfKeysWith(nameMapping, s) ==
    { mapGet(nameMapping, key) : key \in KeysWith(nameMapping, s) }

(***************************************************************************)
(* C35: the substring tier counts matching keys, not chains.  When the      *)
(* normalized query is no key, no earlier tier decides, and it is contained *)
(* in two or more keys that all map to one chain ID, the lookup by name     *)
(* ends in the ambiguity error and resolves to no chain.                    *)
(***************************************************************************)
C35_SameChainStillAmbiguous ==
    lookup.fn = "loadChainByName" =>
        LET q == normalizeChainName(lookup.name)
        IN  ( /\ q \notin mapKeys(NameIndex)
              /\ ~SingleKeyWith(NameIndex, Str_ethereum \o q)
              /\ ~SingleKeyWith(NameIndex, q \o Str_mainnet)
              /\ Cardinality(KeysWith(NameIndex, q)) >= 2
              /\ Cardinality(IDsOfKeysWith(NameIndex, q)) = 1 ) =>
                /\ lookup.res.err = "multiple"
                /\ lookup.res.id \notin IDsOfKeysWith(NameIndex, q)
                /\ Cardinality(lookup.res.keys) >= 2

\* Two aliases of chain 10 contain "-": the lookup of "-" is ambiguous.
C35_Witness ==
    /\ lookup.fn = "loadChainByName"
    /\ lookup.name = << "-" >>
    /\ Cardinality(KeysWith(NameIndex, << "-" >>)) = 2
    /\ IDsOfKeysWith(NameIndex, << "-" >>) = { 10 }
    /\ lookup.res.err = "multiple"


\* The artifact that the insert goroutines leave when they take mu in the
\* order of the feed.
InFeedOrder(feed) ==
    Marshal(insertAll(EmptyCacheData, feed, [ i \in 1..Len(feed) |-> i ]))

(***************************************************************************)
(* C36: the artifact buildCache writes is a function of the feed alone: in  *)
(* whatever order the insert goroutines take mu, the ID index and the name  *)
(* index written are the ones that the order of the feed gives.             *)
(***************************************************************************)
C36_IndexIsFunctionOfFeed ==
    bpc = "built" => cacheFile.content = InFeedOrder(chains)


\* The callers of FetchChainDataByName whose name resolved to a chain ID and
\* whose loadChainByID has returned.
ResolvedByName ==
    { c \in DOMAIN cop : /\ cop[c] = "FetchChainDataByName"
                         /\ cpc[c] = "returned"
                         /\ seen[c].names.resolved }

(***************************************************************************)
(* C37 (as claimed): a lookup by name uses one version of the artifact.     *)
(* When the name resolved to a chain ID, loadChainByID opens the artifact   *)
(* and reads the document that loadNameMapping read, whatever BuildCache    *)
(* or CleanCache other callers run in the meantime.                         *)
(***************************************************************************)
C37_NameLookupOnOneVersion ==
    \A c \in ResolvedByName :
        /\ seen[c].read
        /\ seen[c].content = seen[c].names.content


(***************************************************************************)
(* C38: no cache operation writes forceRebuild, and the flag outlives the   *)
(* rebuild it forces: a step that is a call of FetchChainData,              *)
(* FetchChainDataByName, BuildCache or CleanCache leaves the flag as it     *)
(* was, every fetch that finds the flag set runs buildCache, and so does a  *)
(* fetch that comes right after a forced rebuild that succeeded.            *)
(***************************************************************************)
C38_FlagOutlivesRebuild ==
    /\ [][ lastCall'.op # "none" => forceRebuild' = forceRebuild ]_vars
    /\ []( (lastCall.op \in Fetches /\ lastCall.force) =>
              /\ ~lastCall.usable
              /\ lastCall.rebuilds = 1
              /\ lastCall.fetches = 1 )
    /\ []( lastCall.afterForced =>
              /\ lastCall.force
              /\ lastCall.rebuilds = 1
              /\ lastCall.fetches = 1 )

\* The fetch before this one was forced and wrote the artifact; this one
\* found it whole and of age 0, and fetched the feed again.
C38_Witness ==
    /\ lastCall.op \in Fetches
    /\ lastCall.afterForced
    /\ forceRebuild
    /\ lastCall.prior.exists /\ lastCall.prior.age = 0
    /\ lastCall.prior.content.cut = "none"
    /\ lastCall.rebuilds = 1
    /\ lastCall.buildErr = "nil"


(***************************************************************************)
(* C39: BuildCache always runs buildCache, whatever the age of the artifact *)
(* and the flag, and returns what buildCache returned: when the rebuild     *)
(* fails it returns that error also when an artifact is on disk.            *)
(***************************************************************************)
C39_BuildCacheAlwaysRebuilds ==
    lastCall.op = "BuildCache" =>
        /\ ~lastCall.usable
        /\ lastCall.rebuilds = 1
        /\ lastCall.fetches = 1
        /\ lastCall.res.err = lastCall.buildErr
        /\ ~lastCall.looked
        /\ lastCall.buildErr # "nil" => lastCall.res.err # "nil"

\* A whole artifact younger than CACHE_TTL, the flag not set: BuildCache
\* fetched the feed, the fetch failed, and BuildCache returned the error
\* with the artifact still on disk.
C39_Witness ==
    /\ lastCall.op = "BuildCache"
    /\ ~lastCall.force
    /\ lastCall.prior.exists
    /\ lastCall.prior.age < CACHE_TTL
    /\ lastCall.prior.content.cut = "none"
    /\ lastCall.fetches = 1
    /\ lastCall.buildErr \in { "fetch", "status", "decode" }
    /\ lastCall.res.err = lastCall.buildErr
    /\ cacheFile = lastCall.prior

====
